---- MODULE Spec2Model ----
(***************************************************************************)
(* Document model and text-annotation pipeline of the AIT Bible reader:    *)
(* verse markup parsing (web/lib/xml-parser.ts), inline emphasis           *)
(* (stripMarkdown, renderMarkdown), glossary term matching                 *)
(* (web/lib/glossary.ts) and paragraph grouping (ChapterContent.tsx).      *)
(*                                                                         *)
(* A JavaScript string is modelled as a sequence of one-character strings, *)
(* so that regular expressions, slices and trims are computed character by *)
(* character.                                                              *)
(***************************************************************************)
EXTENDS Integers, Sequences, FiniteSets, TLC

VARIABLES
    md_pc,          \* emphasis pipeline: "input", "stripped", "restripped", "rendered"
    md_text,        \* the prose string handed to stripMarkdown / renderMarkdown
    md_stripped,    \* stripMarkdown(md_text)
    md_restripped,  \* stripMarkdown(md_stripped)
    md_spans,       \* renderMarkdown(md_text): sequence of [kind, text]
    pg_pc,          \* paragraph grouping: "loop", "done"
    pg_verses,      \* chapter.verses, each [verse, paragraphStart]
    pg_i,           \* number of verses the forEach has visited
    pg_paragraphs,  \* paragraphs
    pg_current,     \* currentParagraph
    tx_pc,          \* parseTextElement: "loop", "done"
    tx_textEl,      \* the <text> element, or NoElement
    tx_i,           \* the loop index i over textEl.childNodes
    tx_segments,    \* segments
    tx_plainText,   \* plainText
    tx_paragraphStart,
    tx_hasSpeaker,
    tx_result,      \* the returned {text, segments, paragraphStart, hasSpeaker}
    bk_pc,          \* parseAITXml: "parse", "done"
    bk_doc,         \* the XML document handed to parseAITXml
    bk_i,           \* chapters visited (loop index i)
    bk_j,           \* verse elements of chapter i visited (loop index j)
    bk_chapters,    \* chapters
    bk_verses,      \* verses of the chapter being parsed
    bk_result,      \* the returned ParsedBook, or null
    gm_pc,          \* matchGlossaryTerm: "ready" before the call, "probed" after
    gm_glossary,    \* glossaryTerms, in file order
    gm_text,        \* text
    gm_lemmas,      \* verseLemmas: [supplied, set]
    gm_start,       \* startIndex of the last probe
    gm_result,      \* its result: <<>> for null, else <<[term, matchedText]>>
    dc_files,       \* data/<key>.xml on disk: key -> [exists, doc]
    dc_json,        \* data/<key>.json on disk: key -> [exists, book]
    dc_kjvFiles,    \* data/kjv/<Name>.json on disk: key -> [exists, chapters]
    dc_bookCache,   \* bookCache: key -> parsed book object
    dc_kjvCache,    \* kjvCache: key -> chapter -> verse -> text
    dc_reads,       \* readFileSync calls on XML files so far: key -> count
    dc_objs,        \* ParsedBook objects created so far
    dc_calls,       \* calls and file writes so far
    dc_last,        \* the last call: [op, bookId, nums, value, threw]
    rd_pc,          \* VerseSpan: "segments" between segments, "scan" in the loop, "done"
    rd_glossary,    \* glossaryTerms, in file order
    rd_verse,       \* the verse prop: [segments, greek]
    rd_seg,         \* segments renderSegments has rendered
    rd_currentIndex, \* currentIndex of renderTextWithGlossaryTerms
    rd_result,      \* its result array: spans [kind, text, term, className]
    rd_rendered,    \* renderedSegments: one span array per segment
    sp_initialQuery, \* search page: searchParams.get("q") || ""
    sp_query,       \* the query state (the input box)
    sp_results,     \* results
    sp_total,       \* total
    sp_hasMore,     \* hasMore
    sp_loading,     \* loading
    sp_loadingMore, \* loadingMore
    sp_searched,    \* searched
    sp_pending,     \* fetches in flight: [id, query, offset, append]
    sp_nav,         \* router.push not yet reflected in the URL: <<>> or <<query>>
    sp_effect,      \* the useEffect on initialQuery is due to run
    sp_issued,      \* fetches issued so far
    sp_shown        \* the query of the last non-append response applied, <<>> if none

mdVars == <<md_pc, md_text, md_stripped, md_restripped, md_spans>>
pgVars == <<pg_pc, pg_verses, pg_i, pg_paragraphs, pg_current>>

txVars == <<tx_pc, tx_textEl, tx_i, tx_segments, tx_plainText,
            tx_paragraphStart, tx_hasSpeaker, tx_result>>

bkVars == <<bk_pc, bk_doc, bk_i, bk_j, bk_chapters, bk_verses, bk_result>>

gmVars == <<gm_pc, gm_glossary, gm_text, gm_lemmas, gm_start, gm_result>>

dcVars == <<dc_files, dc_json, dc_kjvFiles, dc_bookCache, dc_kjvCache, dc_reads,
            dc_objs, dc_calls, dc_last>>

rdVars == <<rd_pc, rd_glossary, rd_verse, rd_seg, rd_currentIndex, rd_result,
            rd_rendered>>

spVars == <<sp_initialQuery, sp_query, sp_results, sp_total, sp_hasMore, sp_loading,
            sp_loadingMore, sp_searched, sp_pending, sp_nav, sp_effect, sp_issued,
            sp_shown>>

vars == <<mdVars, pgVars, txVars, bkVars, gmVars, dcVars, rdVars, spVars>>

\* The variables of the other components, which a component's steps leave alone.
notMd == <<pgVars, txVars, bkVars, gmVars, dcVars, rdVars, spVars>>
notPg == <<mdVars, txVars, bkVars, gmVars, dcVars, rdVars, spVars>>
notTx == <<mdVars, pgVars, bkVars, gmVars, dcVars, rdVars, spVars>>
notBk == <<mdVars, pgVars, txVars, gmVars, dcVars, rdVars, spVars>>
notGm == <<mdVars, pgVars, txVars, bkVars, dcVars, rdVars, spVars>>
notDc == <<mdVars, pgVars, txVars, bkVars, gmVars, rdVars, spVars>>
notRd == <<mdVars, pgVars, txVars, bkVars, gmVars, dcVars, spVars>>
notSp == <<mdVars, pgVars, txVars, bkVars, gmVars, dcVars, rdVars>>

\* JavaScript's undefined, for a string-valued field.
Undefined == "undefined"

\* JavaScript's undefined, where an element is expected:
\* getElementsByTagName(...)[0] of an element that has no such descendant.
NoElement ==
    [nodeType |-> 0, nodeValue |-> <<>>, tagName |-> "", who |-> "",
     childNodes |-> <<>>]

\* The accumulators of parseTextElement before its loop.
NoText ==
    [segments |-> <<>>, plainText |-> <<>>, paragraphStart |-> FALSE,
     hasSpeaker |-> FALSE]

\* What parseTextElement returns when there is no <text> element.
EmptyProjection ==
    [text |-> <<>>, segments |-> <<>>, paragraphStart |-> FALSE,
     hasSpeaker |-> FALSE]

MdIdle ==
    /\ md_pc = "idle"
    /\ md_text = <<>>
    /\ md_stripped = <<>>
    /\ md_restripped = <<>>
    /\ md_spans = <<>>

PgIdle ==
    /\ pg_pc = "idle"
    /\ pg_verses = <<>>
    /\ pg_i = 0
    /\ pg_paragraphs = <<>>
    /\ pg_current = <<>>

TxIdle ==
    /\ tx_pc = "idle"
    /\ tx_textEl = NoElement
    /\ tx_i = 0
    /\ tx_segments = <<>>
    /\ tx_plainText = <<>>
    /\ tx_paragraphStart = FALSE
    /\ tx_hasSpeaker = FALSE
    /\ tx_result = EmptyProjection

\* parseAITXml's null.
NullBook == [null |-> TRUE, id |-> <<>>, name |-> <<>>, chapters |-> <<>>]

\* A document without a <book> element.
NoDocument == [throws |-> FALSE, hasBook |-> FALSE, id |-> <<>>, name |-> <<>>,
               chapters |-> <<>>]

BkIdle ==
    /\ bk_pc = "idle"
    /\ bk_doc = NoDocument
    /\ bk_i = 0
    /\ bk_j = 0
    /\ bk_chapters = <<>>
    /\ bk_verses = <<>>
    /\ bk_result = NullBook

\* verseLemmas when the caller passes none.
NoLemmas == [supplied |-> FALSE, set |-> {}]

GmIdle ==
    /\ gm_pc = "idle"
    /\ gm_glossary = <<>>
    /\ gm_text = <<>>
    /\ gm_lemmas = NoLemmas
    /\ gm_start = 0
    /\ gm_result = <<>>

\* No call made yet.
NoCall == [op |-> "none", bookId |-> <<>>, nums |-> <<>>, value |-> <<>>, threw |-> FALSE]

DcIdle ==
    /\ dc_files = <<>>
    /\ dc_json = <<>>
    /\ dc_kjvFiles = <<>>
    /\ dc_bookCache = <<>>
    /\ dc_kjvCache = <<>>
    /\ dc_reads = <<>>
    /\ dc_objs = 0
    /\ dc_calls = 0
    /\ dc_last = NoCall

RdIdle ==
    /\ rd_pc = "idle"
    /\ rd_glossary = <<>>
    /\ rd_verse = [segments |-> <<>>, greek |-> <<>>]
    /\ rd_seg = 0
    /\ rd_currentIndex = 0
    /\ rd_result = <<>>
    /\ rd_rendered = <<>>

SpIdle ==
    /\ sp_initialQuery = <<>>
    /\ sp_query = <<>>
    /\ sp_results = <<>>
    /\ sp_total = 0
    /\ sp_hasMore = FALSE
    /\ sp_loading = FALSE
    /\ sp_loadingMore = FALSE
    /\ sp_searched = FALSE
    /\ sp_pending = {}
    /\ sp_nav = <<>>
    /\ sp_effect = FALSE
    /\ sp_issued = 0
    /\ sp_shown = <<>>

(***************************************************************************)
(* Strings                                                                 *)
(***************************************************************************)

\* All sequences over S of length 0..n.
SeqUpTo(S, n) == UNION {[1..k -> S] : k \in 0..n}

RECURSIVE Concat(_)
\* Array.join("") of a sequence of strings.
Concat(ss) == IF ss = <<>> THEN <<>> ELSE Head(ss) \o Concat(Tail(ss))

\* s.slice(i-1) starts with lit (positions are 1-based here).
StartsAt(s, i, lit) ==
    /\ i + Len(lit) - 1 <= Len(s)
    /\ SubSeq(s, i, i + Len(lit) - 1) = lit

RECURSIVE RunLen(_, _, _)
\* Length of the longest run of characters other than c starting at i:
\* what a greedy [^c]* consumes.
RunLen(s, i, c) ==
    IF i > Len(s) \/ s[i] = c THEN 0 ELSE 1 + RunLen(s, i + 1, c)

Count(s, c) == Cardinality({i \in 1..Len(s) : s[i] = c})

\* The characters \s matches and trim() removes.
Whitespace == {" ", "\n", "\t"}

RECURSIVE TrimStart(_)
TrimStart(s) ==
    IF s # <<>> /\ Head(s) \in Whitespace THEN TrimStart(Tail(s)) ELSE s

RECURSIVE TrimEnd(_)
TrimEnd(s) ==
    IF s # <<>> /\ s[Len(s)] \in Whitespace
    THEN TrimEnd(SubSeq(s, 1, Len(s) - 1)) ELSE s

\* String.prototype.trim
Trim(s) == TrimEnd(TrimStart(s))

RECURSIVE RunWhile(_, _, _)
\* Length of the longest run of characters of S starting at i.
RunWhile(s, i, S) ==
    IF i > Len(s) \/ s[i] \notin S THEN 0 ELSE 1 + RunWhile(s, i + 1, S)

RECURSIVE RunUntil(_, _, _)
\* Length of the longest run of characters outside S starting at i.
RunUntil(s, i, S) ==
    IF i > Len(s) \/ s[i] \in S THEN 0 ELSE 1 + RunUntil(s, i + 1, S)

\* hay.includes(needle)
Includes(hay, needle) == \E i \in 1..(Len(hay) + 1) : StartsAt(hay, i, needle)

UpperCase == <<"A", "B", "C", "D", "E", "F", "G", "H", "I", "J", "K", "L", "M",
               "N", "O", "P", "Q", "R", "S", "T", "U", "V", "W", "X", "Y", "Z">>
LowerCase == <<"a", "b", "c", "d", "e", "f", "g", "h", "i", "j", "k", "l", "m",
               "n", "o", "p", "q", "r", "s", "t", "u", "v", "w", "x", "y", "z">>
Range(f) == {f[x] : x \in DOMAIN f}
DigitChars == {"0", "1", "2", "3", "4", "5", "6", "7", "8", "9"}

\* Upper-case letter -> lower-case letter.
LowerOf == [c \in Range(UpperCase) |->
              LowerCase[CHOOSE i \in DOMAIN UpperCase : UpperCase[i] = c]]

LowerChar(c) == IF c \in DOMAIN LowerOf THEN LowerOf[c] ELSE c

\* String.prototype.toLowerCase
Lower(s) == [k \in 1..Len(s) |-> LowerChar(s[k])]

RECURSIVE SplitOn(_, _)
\* s.split(sep) for a non-empty separator string.
SplitOn(s, sep) ==
    LET at == {i \in 1..Len(s) : StartsAt(s, i, sep)}
    IN  IF at = {} THEN <<s>>
        ELSE LET i == CHOOSE x \in at : \A y \in at : x <= y
             IN  <<SubSeq(s, 1, i - 1)>> \o SplitOn(SubSeq(s, i + Len(sep), Len(s)), sep)

RECURSIVE SplitOnRuns(_, _)
\* s.split(/[S]+/): the pieces between the maximal runs of characters of S.
SplitOnRuns(s, S) ==
    LET n == RunUntil(s, 1, S)
    IN  IF n = Len(s) THEN <<s>>
        ELSE <<SubSeq(s, 1, n)>>
                 \o SplitOnRuns(SubSeq(s, n + RunWhile(s, n + 1, S) + 1, Len(s)), S)

(***************************************************************************)
(* Inline emphasis: stripMarkdown (xml-parser.ts) and renderMarkdown       *)
(* (WordModal.tsx)                                                         *)
(***************************************************************************)

Star == "*"
CloseTag == <<"[", "/", "S", "P", "E", "A", "K", "E", "R", ":">>
OpenTag == <<"[", "S", "P", "E", "A", "K", "E", "R", ":">>

\* Length of the match of /\*\*([^*]+)\*\*/ anchored at i, 0 when there is none.
\* The greedy [^*]+ can only stop at a '*' or at the end, so the longest run
\* is the only candidate.
BoldAt(s, i) ==
    LET n == RunLen(s, i + 2, Star)
    IN  IF /\ StartsAt(s, i, <<Star, Star>>)
           /\ n >= 1
           /\ StartsAt(s, i + 2 + n, <<Star, Star>>)
        THEN n + 4 ELSE 0

\* Length of the match of /\*([^*]+)\*/ anchored at i, 0 when there is none.
ItalicAt(s, i) ==
    LET n == RunLen(s, i + 1, Star)
    IN  IF /\ StartsAt(s, i, <<Star>>)
           /\ n >= 1
           /\ StartsAt(s, i + 1 + n, <<Star>>)
        THEN n + 2 ELSE 0

\* Length of the match of /\[SPEAKER:[^\]]*\]/ (or its [/SPEAKER: form)
\* anchored at i, 0 when there is none.
TagAt(s, i, open) ==
    LET n == RunLen(s, i + Len(open), "]")
    IN  IF StartsAt(s, i, open) /\ i + Len(open) + n <= Len(s)
        THEN Len(open) + n + 1 ELSE 0

RECURSIVE RemoveBold(_, _)
\* text.replace(/\*\*([^*]+)\*\*/g, "$1"), scanning from i.
RemoveBold(s, i) ==
    IF i > Len(s) THEN <<>>
    ELSE LET m == BoldAt(s, i)
         IN  IF m > 0
             THEN SubSeq(s, i + 2, i + m - 3) \o RemoveBold(s, i + m)
             ELSE <<s[i]>> \o RemoveBold(s, i + 1)

RECURSIVE RemoveItalic(_, _)
\* text.replace(/\*([^*]+)\*/g, "$1"), scanning from i.
RemoveItalic(s, i) ==
    IF i > Len(s) THEN <<>>
    ELSE LET m == ItalicAt(s, i)
         IN  IF m > 0
             THEN SubSeq(s, i + 1, i + m - 2) \o RemoveItalic(s, i + m)
             ELSE <<s[i]>> \o RemoveItalic(s, i + 1)

RECURSIVE RemoveTags(_, _, _)
\* text.replace(/\[SPEAKER:[^\]]*\]/g, ""), scanning from i.
RemoveTags(s, i, open) ==
    IF i > Len(s) THEN <<>>
    ELSE LET m == TagAt(s, i, open)
         IN  IF m > 0
             THEN RemoveTags(s, i + m, open)
             ELSE <<s[i]>> \o RemoveTags(s, i + 1, open)

\* stripMarkdown: bold, then italic, then closing tags, then opening tags.
stripMarkdown(text) ==
    LET t1 == RemoveBold(text, 1)
        t2 == RemoveItalic(t1, 1)
        t3 == RemoveTags(t2, 1, CloseTag)
    IN  RemoveTags(t3, 1, OpenTag)

RECURSIVE SplitEmphasis(_, _, _)
\* text.split(/(\*\*[^*]+\*\*|\*[^*]+\*)/g): the pieces between the matches
\* and, the group being a capture, the matches themselves, in order.  `from'
\* is where the pending piece starts.
SplitEmphasis(s, i, from) ==
    IF i > Len(s) THEN <<SubSeq(s, from, Len(s))>>
    ELSE LET m == IF BoldAt(s, i) > 0 THEN BoldAt(s, i) ELSE ItalicAt(s, i)
         IN  IF m > 0
             THEN <<SubSeq(s, from, i - 1), SubSeq(s, i, i + m - 1)>>
                      \o SplitEmphasis(s, i + m, i + m)
             ELSE SplitEmphasis(s, i + 1, from)

\* part.endsWith(lit)
EndsWith(s, lit) == Len(s) >= Len(lit) /\ StartsAt(s, Len(s) - Len(lit) + 1, lit)

\* The element renderMarkdown's map callback returns for one part.
EmphasisSpan(part) ==
    IF StartsAt(part, 1, <<Star, Star>>) /\ EndsWith(part, <<Star, Star>>)
    THEN [kind |-> "bold", text |-> SubSeq(part, 3, Len(part) - 2)]
    ELSE IF StartsAt(part, 1, <<Star>>) /\ EndsWith(part, <<Star>>)
    THEN [kind |-> "italic", text |-> SubSeq(part, 2, Len(part) - 1)]
    ELSE [kind |-> "plain", text |-> part]

renderMarkdown(text) ==
    LET parts == SplitEmphasis(text, 1, 1)
    IN  [k \in 1..Len(parts) |-> EmphasisSpan(parts[k])]

\* The characters a reader sees: the span texts in order.
RenderedText(spans) == Concat([k \in 1..Len(spans) |-> spans[k].text])

\* Pieces the prose inputs are assembled from.
MdFrags == {<<Star>>, <<"a">>, <<"[">>, Tail(OpenTag), <<"]">>}
\* Longest prose input, in pieces.
MaxFrags == 6

MdInputs == {Concat(fs) : fs \in SeqUpTo(MdFrags, MaxFrags)}

MdInit ==
    /\ md_pc = "input"
    /\ md_text \in MdInputs
    /\ md_stripped = <<>>
    /\ md_restripped = <<>>
    /\ md_spans = <<>>

\* A caller extracts plain prose: getTextContent / parseTextElement.
Strip ==
    /\ md_pc = "input"
    /\ md_stripped' = stripMarkdown(md_text)
    /\ md_pc' = "stripped"
    /\ UNCHANGED <<md_text, md_restripped, md_spans, notMd>>

\* The stripped prose goes through stripMarkdown once more.
StripAgain ==
    /\ md_pc = "stripped"
    /\ md_restripped' = stripMarkdown(md_stripped)
    /\ md_pc' = "restripped"
    /\ UNCHANGED <<md_text, md_stripped, md_spans, notMd>>

\* WordModal displays the prose.
Render ==
    /\ md_pc = "input"
    /\ md_spans' = renderMarkdown(md_text)
    /\ md_pc' = "rendered"
    /\ UNCHANGED <<md_text, md_stripped, md_restripped, notMd>>

MdNext == Strip \/ StripAgain \/ Render

StripInit == MdInit /\ PgIdle /\ TxIdle /\ BkIdle /\ GmIdle /\ DcIdle /\ RdIdle /\ SpIdle

SpecStrip == StripInit /\ [][MdNext]_vars

\* C7: stripping is idempotent: stripMarkdown(stripMarkdown(s)) = stripMarkdown(s).
C7_StripIdempotent == md_pc = "restripped" => md_restripped = md_stripped

\* The asterisks of s are one unterminated emphasis delimiter: a lone '*', a
\* lone '**', or an opening '**' followed, after some text, by a single '*'.
LoneDelimiter(s) ==
    \/ Count(s, Star) = 1
    \/ /\ Count(s, Star) = 2
       /\ \E i \in 1..Len(s) : StartsAt(s, i, <<Star, Star>>)
    \/ /\ Count(s, Star) = 3
       /\ \E i \in 1..Len(s) :
             /\ StartsAt(s, i, <<Star, Star>>)
             /\ \E j \in (i + 3)..Len(s) : s[j] = Star

\* s with the speaker-tag remnants scrubbed and nothing else touched.
ScrubTags(s) == RemoveTags(RemoveTags(s, 1, CloseTag), 1, OpenTag)

\* C8: an unterminated emphasis delimiter is preserved: the stripped output
\* keeps every asterisk and every character of the text, and the rendered
\* output is plain spans only whose texts spell the input.
C8_UnterminatedPreserved ==
    LoneDelimiter(md_text) =>
        /\ md_pc = "stripped" => md_stripped = ScrubTags(md_text)
        /\ md_pc = "rendered" =>
              /\ \A k \in 1..Len(md_spans) : md_spans[k].kind = "plain"
              /\ RenderedText(md_spans) = md_text

\* s holds the literal `open', then characters other than ']', then ']'.
HasTag(s, open) ==
    \E i \in 1..Len(s) :
        /\ StartsAt(s, i, open)
        /\ \E j \in (i + Len(open))..Len(s) : s[j] = "]"

\* C20: speaker-tag remnants are scrubbed unconditionally: the output of
\* stripMarkdown holds neither "[SPEAKER:" ... "]" nor "[/SPEAKER:" ... "]".
C20_TagsScrubbed ==
    md_pc = "stripped" => ~HasTag(md_stripped, OpenTag) /\ ~HasTag(md_stripped, CloseTag)

(***************************************************************************)
(* Paragraph grouping (ChapterContent.tsx, and the same loop in the        *)
(* chapter page)                                                           *)
(***************************************************************************)

\* Longest chapter handed to the grouper, in verses.
MaxVerses == 5

\* The verse lists of a chapter: verse k is numbered k, any flags.
ChapterVerses ==
    {[k \in 1..n |-> [verse |-> k, paragraphStart |-> f[k]]] :
        n \in 0..MaxVerses, f \in [1..MaxVerses -> BOOLEAN]}

\* A forEach body that opens a group at every flagged verse, empty or not.
GroupVerseNoGuard(paragraphs, current, verse) ==
    IF verse.paragraphStart
    THEN [paragraphs |-> Append(paragraphs, current), current |-> <<verse>>]
    ELSE [paragraphs |-> paragraphs, current |-> Append(current, verse)]

\* A forEach body that resets the current group without pushing it.
GroupVerseNoPush(paragraphs, current, verse) ==
    IF verse.paragraphStart /\ Len(current) > 0
    THEN [paragraphs |-> paragraphs, current |-> <<verse>>]
    ELSE [paragraphs |-> paragraphs, current |-> Append(current, verse)]

\* The forEach body: the state of (paragraphs, currentParagraph) after verse.
GroupVerse(paragraphs, current, verse) ==
    IF verse.paragraphStart /\ Len(current) > 0
    THEN [paragraphs |-> Append(paragraphs, current), current |-> <<verse>>]
    ELSE [paragraphs |-> paragraphs, current |-> Append(current, verse)]

PgInit ==
    /\ pg_pc = "loop"
    /\ pg_verses \in ChapterVerses
    /\ pg_i = 0
    /\ pg_paragraphs = <<>>
    /\ pg_current = <<>>

\* One iteration of chapter.verses.forEach.
VisitVerse ==
    /\ pg_pc = "loop"
    /\ pg_i < Len(pg_verses)
    /\ LET r == GroupVerse(pg_paragraphs, pg_current, pg_verses[pg_i + 1])
       IN  /\ pg_paragraphs' = r.paragraphs
           /\ pg_current' = r.current
    /\ pg_i' = pg_i + 1
    /\ UNCHANGED <<pg_pc, pg_verses, notPg>>

\* After the loop: the last group is pushed when it holds a verse.
PushLast ==
    /\ pg_pc = "loop"
    /\ pg_i = Len(pg_verses)
    /\ pg_paragraphs' =
          IF Len(pg_current) > 0 THEN Append(pg_paragraphs, pg_current)
          ELSE pg_paragraphs
    /\ pg_pc' = "done"
    /\ UNCHANGED <<pg_verses, pg_i, pg_current, notPg>>

PgNext == VisitVerse \/ PushLast

GroupInit == PgInit /\ MdIdle /\ TxIdle /\ BkIdle /\ GmIdle /\ DcIdle /\ RdIdle /\ SpIdle

SpecGroup == GroupInit /\ [][PgNext]_vars

\* C3: the groups partition the chapter: none is empty and, laid end to end,
\* they are the verse list itself; an empty chapter has no group.
C3_GroupsPartition ==
    pg_pc = "done" =>
        /\ \A g \in 1..Len(pg_paragraphs) : Len(pg_paragraphs[g]) > 0
        /\ Concat(pg_paragraphs) = pg_verses
        /\ pg_verses = <<>> => pg_paragraphs = <<>>

C3_Witness ==
    /\ pg_pc = "done"
    /\ Len(pg_verses) >= 4
    /\ Len(pg_paragraphs) >= 3
    /\ \E g \in 1..Len(pg_paragraphs) : Len(pg_paragraphs[g]) >= 2

\* The verses a group opens with.
GroupHeads == {pg_paragraphs[g][1].verse : g \in {h \in 1..Len(pg_paragraphs) : pg_paragraphs[h] # <<>>}}

\* C4: a boundary lies before verse i exactly when i is not the first verse
\* and is flagged, so a non-empty chapter has one group more than it has
\* flagged non-first verses.
C4_BoundaryRule ==
    pg_pc = "done" /\ pg_verses # <<>> =>
        /\ GroupHeads = {1} \cup {i \in 2..Len(pg_verses) : pg_verses[i].paragraphStart}
        /\ Len(pg_paragraphs) =
              1 + Cardinality({i \in 2..Len(pg_verses) : pg_verses[i].paragraphStart})

\* Flags [F,T,F,T] grouped as [v1], [v2,v3], [v4]; and a chapter whose first
\* verse is flagged.
C4_Witness ==
    /\ pg_pc = "done"
    /\ Len(pg_verses) = 4
    /\ [k \in 1..4 |-> pg_verses[k].paragraphStart] = <<FALSE, TRUE, FALSE, TRUE>>
    /\ [g \in 1..Len(pg_paragraphs) |-> Len(pg_paragraphs[g])] = <<1, 2, 1>>

(***************************************************************************)
(* Verse text: parseTextElement and getTextContent (xml-parser.ts)         *)
(***************************************************************************)

\* DOM nodes as the parser reads them: nodeType 3 is a text node, 1 an
\* element.  getAttribute("who") of an element without the attribute is "".
TextNode(value) ==
    [nodeType |-> 3, nodeValue |-> value, tagName |-> "", who |-> "",
     childNodes |-> <<>>]
Element(tag, who, kids) ==
    [nodeType |-> 1, nodeValue |-> <<>>, tagName |-> tag, who |-> who,
     childNodes |-> kids]

\* tagName.toLowerCase() on the tags of the format.
TagLower(tag) ==
    CASE tag = "P" -> "p" [] tag = "Q" -> "q" [] tag = "REF" -> "ref"
      [] OTHER -> tag

RECURSIVE getTextContent(_)
RECURSIVE ChildrenText(_, _)
\* The loop of getTextContent from child k on: text nodes contribute their
\* value, elements their own getTextContent.
ChildrenText(kids, k) ==
    IF k > Len(kids) THEN <<>>
    ELSE (IF kids[k].nodeType = 3 THEN kids[k].nodeValue
          ELSE IF kids[k].nodeType = 1 THEN getTextContent(kids[k])
          ELSE <<>>) \o ChildrenText(kids, k + 1)

getTextContent(el) == stripMarkdown(ChildrenText(el.childNodes, 1))

TextSegment(content) ==
    [type |-> "text", content |-> content, speaker |-> Undefined]
SpeakerSegment(content, speaker) ==
    [type |-> "speaker", content |-> content, speaker |-> speaker]

\* A loop body that adds a text node to plainText even when it is blank.
VisitChildKeepsBlank(acc, node) ==
    IF node.nodeType = 3
    THEN LET content == stripMarkdown(node.nodeValue)
         IN  IF Trim(content) # <<>>
             THEN [acc EXCEPT !.segments = Append(@, TextSegment(content)),
                              !.plainText = @ \o content]
             ELSE [acc EXCEPT !.plainText = @ \o content]
    ELSE IF node.nodeType = 1 /\ TagLower(node.tagName) = "p"
    THEN [acc EXCEPT !.paragraphStart = TRUE]
    ELSE IF node.nodeType = 1 /\ TagLower(node.tagName) = "q"
    THEN LET speaker == IF node.who # "" THEN node.who ELSE "unknown"
             content == getTextContent(node)
         IN  [acc EXCEPT !.segments = Append(@, SpeakerSegment(content, speaker)),
                         !.plainText = @ \o content,
                         !.hasSpeaker = TRUE]
    ELSE acc

\* The body of parseTextElement's loop over childNodes: the accumulators
\* (segments, plainText, paragraphStart, hasSpeaker) after `node'.
VisitChild(acc, node) ==
    IF node.nodeType = 3
    THEN LET content == stripMarkdown(node.nodeValue)
         IN  IF Trim(content) # <<>>
             THEN [acc EXCEPT !.segments = Append(@, TextSegment(content)),
                              !.plainText = @ \o content]
             ELSE acc
    ELSE IF node.nodeType = 1 /\ TagLower(node.tagName) = "p"
    THEN [acc EXCEPT !.paragraphStart = TRUE]
    ELSE IF node.nodeType = 1 /\ TagLower(node.tagName) = "q"
    THEN LET speaker == IF node.who # "" THEN node.who ELSE "unknown"
             content == getTextContent(node)
         IN  [acc EXCEPT !.segments = Append(@, SpeakerSegment(content, speaker)),
                         !.plainText = @ \o content,
                         !.hasSpeaker = TRUE]
    ELSE acc

\* What parseTextElement returns from its accumulators.
TextResult(acc) ==
    [text |-> Trim(acc.plainText), segments |-> acc.segments,
     paragraphStart |-> acc.paragraphStart, hasSpeaker |-> acc.hasSpeaker]

RECURSIVE WalkFrom(_, _, _)
WalkFrom(acc, kids, k) ==
    IF k > Len(kids) THEN acc
    ELSE WalkFrom(VisitChild(acc, kids[k]), kids, k + 1)

\* parseTextElement as a function of the <text> element.
parseTextElement(textEl) ==
    IF textEl = NoElement THEN EmptyProjection
    ELSE TextResult(WalkFrom(NoText, textEl.childNodes, 1))

\* The concatenation of segments[*].content.
SegmentsText(segments) ==
    Concat([k \in 1..Len(segments) |-> segments[k].content])

\* Character data of the verse texts.
TxA == <<"a">>
TxBlank == <<" ">>
TxPadded == <<" ", "b", " ">>
TxItalic == <<Star, "c", Star>>

\* <q who="Jesus">d <q who="scripture">e</q> f</q>
NestedQuote ==
    Element("q", "Jesus",
            <<TextNode(<<"d", " ">>),
              Element("q", "scripture", <<TextNode(<<"e">>)>>),
              TextNode(<<" ", "f">>)>>)

\* The children a <text> element is assembled from.
TextKids ==
    {TextNode(TxA), TextNode(TxBlank), TextNode(TxPadded), TextNode(TxItalic),
     Element("p", "", <<>>),
     Element("q", "Jesus", <<TextNode(TxPadded)>>),
     Element("Q", "", <<TextNode(TxA)>>),
     NestedQuote,
     Element("q", "God", <<Element("p", "", <<>>), TextNode(TxItalic)>>),
     Element("ref", "", <<TextNode(TxA)>>),
     Element("q", "angel", <<Element("divine", "", <<TextNode(TxA)>>), TextNode(TxBlank)>>)}

\* Most children of a <text> element.
MaxKids == 3

TextElements ==
    {NoElement} \cup {Element("text", "", kids) : kids \in SeqUpTo(TextKids, MaxKids)}

TxInit ==
    /\ tx_pc = "loop"
    /\ tx_textEl \in TextElements
    /\ tx_i = 0
    /\ tx_segments = <<>>
    /\ tx_plainText = <<>>
    /\ tx_paragraphStart = FALSE
    /\ tx_hasSpeaker = FALSE
    /\ tx_result = EmptyProjection

\* if (!textEl) return the empty projection.
ReturnNoText ==
    /\ tx_pc = "loop"
    /\ tx_textEl = NoElement
    /\ tx_result' = EmptyProjection
    /\ tx_pc' = "done"
    /\ UNCHANGED <<tx_textEl, tx_i, tx_segments, tx_plainText,
                   tx_paragraphStart, tx_hasSpeaker, notTx>>

\* One iteration of the loop over textEl.childNodes.
WalkChild ==
    /\ tx_pc = "loop"
    /\ tx_textEl # NoElement
    /\ tx_i < Len(tx_textEl.childNodes)
    /\ LET acc == VisitChild([segments |-> tx_segments,
                              plainText |-> tx_plainText,
                              paragraphStart |-> tx_paragraphStart,
                              hasSpeaker |-> tx_hasSpeaker],
                             tx_textEl.childNodes[tx_i + 1])
       IN  /\ tx_segments' = acc.segments
           /\ tx_plainText' = acc.plainText
           /\ tx_paragraphStart' = acc.paragraphStart
           /\ tx_hasSpeaker' = acc.hasSpeaker
    /\ tx_i' = tx_i + 1
    /\ UNCHANGED <<tx_pc, tx_textEl, tx_result, notTx>>

\* return { text: plainText.trim(), segments, paragraphStart, hasSpeaker }
ReturnText ==
    /\ tx_pc = "loop"
    /\ tx_textEl # NoElement
    /\ tx_i = Len(tx_textEl.childNodes)
    /\ tx_result' = TextResult([segments |-> tx_segments,
                                plainText |-> tx_plainText,
                                paragraphStart |-> tx_paragraphStart,
                                hasSpeaker |-> tx_hasSpeaker])
    /\ tx_pc' = "done"
    /\ UNCHANGED <<tx_textEl, tx_i, tx_segments, tx_plainText,
                   tx_paragraphStart, tx_hasSpeaker, notTx>>

TxNext == ReturnNoText \/ WalkChild \/ ReturnText

TextInit == TxInit /\ MdIdle /\ PgIdle /\ BkIdle /\ GmIdle /\ DcIdle /\ RdIdle /\ SpIdle

SpecText == TextInit /\ [][TxNext]_vars

\* C1: round trip: the segment contents, concatenated in order and trimmed
\* once, are the returned text.
C1_RoundTrip ==
    tx_pc = "done" => Trim(SegmentsText(tx_result.segments)) = tx_result.text

\* A projection of a text run and a quote, with a blank text node between
\* the children, whose outer whitespace was trimmed.
C1_Witness ==
    /\ tx_pc = "done"
    /\ Len(tx_result.segments) = 2
    /\ tx_result.hasSpeaker
    /\ tx_result.segments[1].type = "text"
    /\ SegmentsText(tx_result.segments) # tx_result.text
    /\ \E k \in 1..Len(tx_textEl.childNodes) :
          tx_textEl.childNodes[k] = TextNode(TxBlank)

\* kids is <q who=A> text1 <q who=B> text2 </q> text3 </q>.
IsNestedQuote(kids) ==
    /\ Len(kids) = 1
    /\ kids[1].nodeType = 1 /\ kids[1].tagName = "q" /\ kids[1].who # ""
    /\ LET in == kids[1].childNodes
       IN  /\ Len(in) = 3
           /\ in[1].nodeType = 3 /\ in[3].nodeType = 3
           /\ in[2].nodeType = 1 /\ in[2].tagName = "q" /\ in[2].who # ""
           /\ Len(in[2].childNodes) = 1
           /\ in[2].childNodes[1].nodeType = 3

\* C2: nesting attribution: a quote of A holding text1, a quote of B
\* holding text2, and text3 projects to speaker(A, text1),
\* speaker(B, text2), speaker(A, text3).
C2_NestingAttribution ==
    (tx_pc = "done" /\ tx_textEl # NoElement /\ IsNestedQuote(tx_textEl.childNodes)) =>
        LET outer == tx_textEl.childNodes[1]
            inner == outer.childNodes[2]
        IN  tx_result.segments =
                <<SpeakerSegment(stripMarkdown(outer.childNodes[1].nodeValue), outer.who),
                  SpeakerSegment(stripMarkdown(inner.childNodes[1].nodeValue), inner.who),
                  SpeakerSegment(stripMarkdown(outer.childNodes[3].nodeValue), outer.who)>>

\* The places among kids of the elements that are neither <p> nor <q>.
OpaqueKids(kids) ==
    {k \in 1..Len(kids) :
        kids[k].nodeType = 1 /\ TagLower(kids[k].tagName) \notin {"p", "q"}}

\* The text of the element is part of the returned text and of a segment.
TextKept(el) ==
    /\ Includes(tx_result.text, Trim(getTextContent(el)))
    /\ \E s \in 1..Len(tx_result.segments) :
          Includes(tx_result.segments[s].content, getTextContent(el))

\* C14: opaque elements keep their text: the text content of an element
\* that is neither <p> nor <q>, a child of <text> or of a <q>, is part of
\* the returned text and of a segment.
C14_OpaqueKeepsText ==
    (tx_pc = "done" /\ tx_textEl # NoElement) =>
        LET kids == tx_textEl.childNodes
        IN  /\ \A k \in OpaqueKids(kids) : TextKept(kids[k])
            /\ \A k \in 1..Len(kids) :
                  (kids[k].nodeType = 1 /\ TagLower(kids[k].tagName) = "q") =>
                      \A j \in OpaqueKids(kids[k].childNodes) :
                          TextKept(kids[k].childNodes[j])

\* C15: coalescing: no two adjacent segments have the same kind and the
\* same speaker.
C15_Coalesced ==
    tx_pc = "done" =>
        \A s \in 1..(Len(tx_result.segments) - 1) :
            \/ tx_result.segments[s].type # tx_result.segments[s + 1].type
            \/ tx_result.segments[s].speaker # tx_result.segments[s + 1].speaker

RECURSIVE CharacterData(_, _)
\* The stripped character data of the text nodes among kids, from k on, at
\* any depth and in document order.
CharacterData(kids, k) ==
    IF k > Len(kids) THEN <<>>
    ELSE (IF kids[k].nodeType = 3 THEN stripMarkdown(kids[k].nodeValue)
          ELSE CharacterData(kids[k].childNodes, 1)) \o CharacterData(kids, k + 1)

\* C16: plainText completeness: the returned text is the trimmed
\* concatenation of the character data of all text nodes of the element.
C16_TextComplete ==
    (tx_pc = "done" /\ tx_textEl # NoElement) =>
        tx_result.text = Trim(CharacterData(tx_textEl.childNodes, 1))

RECURSIVE HasParagraph(_, _)
\* A <p> element occurs among kids from k on, at any depth.
HasParagraph(kids, k) ==
    /\ k <= Len(kids)
    /\ \/ kids[k].nodeType = 1 /\ TagLower(kids[k].tagName) = "p"
       \/ kids[k].nodeType = 1 /\ HasParagraph(kids[k].childNodes, 1)
       \/ HasParagraph(kids, k + 1)

\* C21: paragraphStart is true exactly when a <p> element occurs in the
\* verse's text, as a child of <text> or nested at any depth; a verse
\* without <text> has paragraphStart false.
C21_ParagraphAnywhere ==
    tx_pc = "done" =>
        tx_result.paragraphStart =
            (tx_textEl # NoElement /\ HasParagraph(tx_textEl.childNodes, 1))

(***************************************************************************)
(* Verses, chapters, books: parseVerse and parseAITXml (xml-parser.ts)     *)
(***************************************************************************)

\* getAttribute of an attribute the element does not carry.
AttrNull == <<"null">>

\* attr || fallback
OrElse(attr, fallback) ==
    IF attr = AttrNull \/ attr = <<>> THEN fallback ELSE attr

DigitValue(c) ==
    CASE c = "0" -> 0 [] c = "1" -> 1 [] c = "2" -> 2 [] c = "3" -> 3
      [] c = "4" -> 4 [] c = "5" -> 5 [] c = "6" -> 6 [] c = "7" -> 7
      [] c = "8" -> 8 [] c = "9" -> 9 [] OTHER -> -1

RECURSIVE DigitsValue(_, _, _)
\* The value of the decimal digits of s from i on, after `sofar'; stops at
\* the first character that is no digit.
DigitsValue(s, i, sofar) ==
    IF i > Len(s) \/ DigitValue(s[i]) < 0 THEN sofar
    ELSE DigitsValue(s, i + 1, 10 * sofar + DigitValue(s[i]))

\* parseInt(s, 10): leading whitespace skipped, an optional sign, then the
\* digits up to the first other character; NaN when there is no digit.
parseInt(s) ==
    LET t == TrimStart(s)
        signed == t # <<>> /\ t[1] \in {"-", "+"}
        d == IF signed THEN 2 ELSE 1
    IN  IF d > Len(t) \/ DigitValue(t[d]) < 0
        THEN [nan |-> TRUE, value |-> 0]
        ELSE [nan |-> FALSE,
              value |-> IF signed /\ t[1] = "-" THEN 0 - DigitsValue(t, d, 0)
                        ELSE DigitsValue(t, d, 0)]

RECURSIVE Deduplicate(_)
\* The sequence without the later copies of its elements.
Deduplicate(seq) ==
    IF seq = <<>> THEN <<>>
    ELSE LET init == Deduplicate(SubSeq(seq, 1, Len(seq) - 1))
         IN  IF \E k \in 1..Len(init) : init[k] = seq[Len(seq)] THEN init
             ELSE Append(init, seq[Len(seq)])

\* A loop over the <w> elements that keeps one token per distinct word.
GreekWordsDeduplicated(greekEl) ==
    IF ~greekEl.present THEN <<>>
    ELSE Deduplicate([k \in 1..Len(greekEl.words) |->
                         [text |-> getTextContent(greekEl.words[k]),
                          lemma |-> OrElse(greekEl.words[k].lemma, <<>>)]])

\* A loop over the <w> elements that skips a word without a lemma attribute.
GreekWordsNeedsLemma(greekEl) ==
    IF ~greekEl.present THEN <<>>
    ELSE LET kept == SelectSeq(greekEl.words, LAMBDA w : w.lemma # AttrNull)
         IN  [k \in 1..Len(kept) |->
                [text |-> getTextContent(kept[k]), lemma |-> kept[k].lemma]]

\* The <w> elements of greekEl as GreekWord records.
GreekWords(greekEl) ==
    IF ~greekEl.present THEN <<>>
    ELSE [k \in 1..Len(greekEl.words) |->
            [text |-> getTextContent(greekEl.words[k]),
             lemma |-> OrElse(greekEl.words[k].lemma, <<>>)]]

\* The <note> elements of the verse as VerseNote records.
VerseNotes(noteEls) ==
    [k \in 1..Len(noteEls) |->
        [term |-> OrElse(noteEls[k].term, <<>>),
         explanation |-> getTextContent(noteEls[k])]]

\* A parseVerse that gives up on a verse element without a <text> child.
parseVerseNeedsText(verseEl) ==
    LET verseNum == parseInt(OrElse(verseEl.num, <<"0">>))
        t == parseTextElement(verseEl.text)
    IN  IF (~verseNum.nan /\ verseNum.value = 0) \/ verseEl.text = NoElement
        THEN <<>>
        ELSE <<[verse |-> verseNum, text |-> t.text, segments |-> t.segments,
                paragraphStart |-> t.paragraphStart,
                greek |-> GreekWords(verseEl.greek),
                notes |-> VerseNotes(verseEl.notes),
                hasSpeaker |-> t.hasSpeaker]>>

\* parseVerse: <<>> for null, else the one ParsedVerse.  verse is the result
\* of parseInt, a number or NaN.
parseVerse(verseEl) ==
    LET verseNum == parseInt(OrElse(verseEl.num, <<"0">>))
        t == parseTextElement(verseEl.text)
    IN  IF ~verseNum.nan /\ verseNum.value = 0
        THEN <<>>
        ELSE <<[verse |-> verseNum, text |-> t.text, segments |-> t.segments,
                paragraphStart |-> t.paragraphStart,
                greek |-> GreekWords(verseEl.greek),
                notes |-> VerseNotes(verseEl.notes),
                hasSpeaker |-> t.hasSpeaker]>>

\* Element constructors of the document format.
VerseElement(num, text, greek, notes) ==
    [num |-> num, text |-> text, greek |-> greek, notes |-> notes]
NoGreek == [present |-> FALSE, words |-> <<>>]
Greek(words) == [present |-> TRUE, words |-> words]
W(lemma, surface) == [lemma |-> lemma, childNodes |-> <<TextNode(surface)>>]
Note(term, body) == [term |-> term, childNodes |-> <<TextNode(body)>>]
ChapterElement(num, verseEls) == [num |-> num, verseEls |-> verseEls]

\* The verse elements chapters are assembled from.
VerseElements ==
    {VerseElement(<<"1">>, NoElement, NoGreek, <<>>),
     VerseElement(<<"2">>,
                  Element("text", "", <<Element("p", "", <<>>), TextNode(TxPadded)>>),
                  Greek(<<W(<<"k", "a", "i">>, <<"k", "a", "i">>),
                          W(AttrNull, <<"o">>),
                          W(<<"k", "a", "i">>, <<"k", "a", "i">>)>>),
                  <<Note(<<"n">>, TxItalic)>>),
     VerseElement(<<"0">>, Element("text", "", <<TextNode(TxA)>>), NoGreek, <<>>),
     VerseElement(AttrNull, NoElement, NoGreek, <<>>),
     VerseElement(<<"x">>, Element("text", "", <<TextNode(TxA)>>), NoGreek, <<>>),
     VerseElement(<<"-", "1">>, NoElement, NoGreek, <<>>),
     VerseElement(<<"3">>,
                  Element("text", "", <<NestedQuote, Element("q", "", <<TextNode(TxA)>>)>>),
                  Greek(<<>>),
                  <<Note(AttrNull, TxA), Note(<<"n">>, TxPadded)>>)}

\* Most verse elements of a chapter.
MaxVerseEls == 3

\* A second chapter, for books of two.
SecondChapters ==
    {ChapterElement(<<"2">>, <<>>),
     ChapterElement(AttrNull,
                    <<VerseElement(<<"1">>, NoElement, NoGreek, <<>>),
                      VerseElement(<<"2">>, Element("text", "", <<TextNode(TxA)>>),
                                   NoGreek, <<>>)>>)}

Documents ==
    LET first == {ChapterElement(<<"1">>, vs) : vs \in SeqUpTo(VerseElements, MaxVerseEls)}
        book(chs) == [throws |-> FALSE, hasBook |-> TRUE, id |-> <<"m", "t">>,
                      name |-> <<"M">>, chapters |-> chs]
    IN  {NoDocument, [NoDocument EXCEPT !.throws = TRUE], book(<<>>)}
            \cup {book(<<c>>) : c \in first}
            \cup {book(<<c, d>>) : c \in first, d \in SecondChapters}

BkInit ==
    /\ bk_pc = "parse"
    /\ bk_doc \in Documents
    /\ bk_i = 0
    /\ bk_j = 0
    /\ bk_chapters = <<>>
    /\ bk_verses = <<>>
    /\ bk_result = NullBook

\* The try block throws: catch logs and returns null.
ParseThrows ==
    /\ bk_pc = "parse"
    /\ bk_doc.throws
    /\ bk_result' = NullBook
    /\ bk_pc' = "done"
    /\ UNCHANGED <<bk_doc, bk_i, bk_j, bk_chapters, bk_verses, notBk>>

\* if (!bookEl) return null
ReturnNoBook ==
    /\ bk_pc = "parse"
    /\ ~bk_doc.throws /\ ~bk_doc.hasBook
    /\ bk_result' = NullBook
    /\ bk_pc' = "done"
    /\ UNCHANGED <<bk_doc, bk_i, bk_j, bk_chapters, bk_verses, notBk>>

\* One iteration of the loop over verseEls: parseVerse, push unless null.
ParseVerseElement ==
    /\ bk_pc = "parse"
    /\ ~bk_doc.throws /\ bk_doc.hasBook
    /\ bk_i < Len(bk_doc.chapters)
    /\ bk_j < Len(bk_doc.chapters[bk_i + 1].verseEls)
    /\ bk_verses' = bk_verses \o parseVerse(bk_doc.chapters[bk_i + 1].verseEls[bk_j + 1])
    /\ bk_j' = bk_j + 1
    /\ UNCHANGED <<bk_pc, bk_doc, bk_i, bk_chapters, bk_result, notBk>>

\* chapters.push({ chapter: chapterNum, verses }) and on to the next chapter.
PushChapter ==
    /\ bk_pc = "parse"
    /\ ~bk_doc.throws /\ bk_doc.hasBook
    /\ bk_i < Len(bk_doc.chapters)
    /\ bk_j = Len(bk_doc.chapters[bk_i + 1].verseEls)
    /\ bk_chapters' =
          Append(bk_chapters,
                 [chapter |-> parseInt(OrElse(bk_doc.chapters[bk_i + 1].num, <<"0">>)),
                  verses |-> bk_verses])
    /\ bk_i' = bk_i + 1
    /\ bk_j' = 0
    /\ bk_verses' = <<>>
    /\ UNCHANGED <<bk_pc, bk_doc, bk_result, notBk>>

\* return { id: bookId, name: bookName, chapters }
ReturnBook ==
    /\ bk_pc = "parse"
    /\ ~bk_doc.throws /\ bk_doc.hasBook
    /\ bk_i = Len(bk_doc.chapters)
    /\ bk_result' = [null |-> FALSE, id |-> OrElse(bk_doc.id, <<>>),
                     name |-> OrElse(bk_doc.name, <<>>), chapters |-> bk_chapters]
    /\ bk_pc' = "done"
    /\ UNCHANGED <<bk_doc, bk_i, bk_j, bk_chapters, bk_verses, notBk>>

BkNext == ParseThrows \/ ReturnNoBook \/ ParseVerseElement \/ PushChapter \/ ReturnBook

BookInit == BkInit /\ MdIdle /\ PgIdle /\ TxIdle /\ GmIdle /\ DcIdle /\ RdIdle /\ SpIdle

SpecBook == BookInit /\ [][BkNext]_vars

\* The verse element has a valid number and no <text>, <greek> or <note>.
IsEmptyVerse(verseEl) ==
    /\ ~parseInt(OrElse(verseEl.num, <<"0">>)).nan
    /\ parseInt(OrElse(verseEl.num, <<"0">>)).value >= 1
    /\ verseEl.text = NoElement
    /\ ~verseEl.greek.present
    /\ verseEl.notes = <<>>

\* How many of the first j verse elements carry a number other than 0: the
\* place of element j among the verses of its chapter.
PlaceOf(verseEls, j) ==
    Cardinality({k \in 1..j : parseInt(OrElse(verseEls[k].num, <<"0">>)) # [nan |-> FALSE, value |-> 0]})

\* C9: an empty verse is parsed to the empty projection, without tokens or
\* notes, and stands in its chapter's verse list at its source position.
C9_EmptyVerseKept ==
    (bk_pc = "done" /\ ~bk_result.null) =>
        \A c \in 1..Len(bk_doc.chapters) :
            LET els == bk_doc.chapters[c].verseEls
                out == bk_result.chapters[c].verses
            IN  \A j \in 1..Len(els) :
                    IsEmptyVerse(els[j]) =>
                        /\ PlaceOf(els, j) <= Len(out)
                        /\ out[PlaceOf(els, j)] =
                              [verse |-> parseInt(els[j].num), text |-> <<>>,
                               segments |-> <<>>, paragraphStart |-> FALSE,
                               greek |-> <<>>, notes |-> <<>>, hasSpeaker |-> FALSE]

\* A parsed chapter of three verses whose second is an empty verse.
C9_Witness ==
    /\ bk_pc = "done" /\ ~bk_result.null
    /\ Len(bk_doc.chapters) >= 1
    /\ Len(bk_doc.chapters[1].verseEls) = 3
    /\ IsEmptyVerse(bk_doc.chapters[1].verseEls[2])
    /\ Len(bk_result.chapters[1].verses) = 3
    /\ bk_result.chapters[1].verses[2].text = <<>>
    /\ bk_result.chapters[1].verses[1].text # <<>>

\* Attribute values no element of the documents carries.
FillerAttr == <<"z">>
FillerWho == "Z"

\* The verse element with every missing who, lemma and term attribute
\* supplied.
FillVerse(verseEl) ==
    [verseEl EXCEPT
        !.text = IF @ = NoElement THEN @
                 ELSE [@ EXCEPT !.childNodes =
                          [k \in 1..Len(@) |->
                              IF @[k].nodeType = 1 /\ TagLower(@[k].tagName) = "q"
                                 /\ @[k].who = ""
                              THEN [@[k] EXCEPT !.who = FillerWho] ELSE @[k]]],
        !.greek = [@ EXCEPT !.words =
                      [k \in 1..Len(@) |->
                          IF @[k].lemma = AttrNull
                          THEN [@[k] EXCEPT !.lemma = FillerAttr] ELSE @[k]]],
        !.notes = [k \in 1..Len(@) |->
                      IF @[k].term = AttrNull
                      THEN [@[k] EXCEPT !.term = FillerAttr] ELSE @[k]]]

\* The parsed verse with the documented sentinels where the fillers stand:
\* speaker "unknown", lemma "", term "".
WithSentinels(verse) ==
    [verse EXCEPT
        !.segments = [k \in 1..Len(@) |->
                         IF @[k].speaker = FillerWho
                         THEN [@[k] EXCEPT !.speaker = "unknown"] ELSE @[k]],
        !.greek = [k \in 1..Len(@) |->
                      IF @[k].lemma = FillerAttr
                      THEN [@[k] EXCEPT !.lemma = <<>>] ELSE @[k]],
        !.notes = [k \in 1..Len(@) |->
                      IF @[k].term = FillerAttr
                      THEN [@[k] EXCEPT !.term = <<>>] ELSE @[k]]]

\* The verses of a chapter as they are parsed once the missing attributes
\* are supplied, with the sentinels put back in their places.
ExpectedVerses(verseEls) ==
    Concat([j \in 1..Len(verseEls) |->
               LET v == parseVerse(FillVerse(verseEls[j]))
               IN  IF v = <<>> THEN <<>> ELSE <<WithSentinels(v[1])>>])

Surface(wordEl) == stripMarkdown(wordEl.childNodes[1].nodeValue)

\* C17: source tokens keep source order: a kept verse with a <greek>
\* container of n <w> elements has n tokens, token k carrying the surface
\* text and the lemma of the k-th <w>; a verse without <greek> has none.
C17_TokensInSourceOrder ==
    (bk_pc = "done" /\ ~bk_result.null) =>
        \A c \in 1..Len(bk_doc.chapters) :
            LET els == bk_doc.chapters[c].verseEls
                out == bk_result.chapters[c].verses
            IN  \A j \in 1..Len(els) :
                    parseInt(OrElse(els[j].num, <<"0">>)) # [nan |-> FALSE, value |-> 0] =>
                        LET words == els[j].greek.words
                            greek == out[PlaceOf(els, j)].greek
                        IN  IF ~els[j].greek.present THEN greek = <<>>
                            ELSE /\ Len(greek) = Len(words)
                                 /\ \A k \in 1..Len(words) :
                                       /\ greek[k].text = Surface(words[k])
                                       /\ greek[k].lemma =
                                             (IF words[k].lemma = AttrNull THEN <<>>
                                              ELSE words[k].lemma)

\* A parsed verse of three tokens whose first and third are the same word,
\* after a verse without tokens.
C17_Witness ==
    /\ bk_pc = "done" /\ ~bk_result.null
    /\ Len(bk_result.chapters) >= 1
    /\ LET vs == bk_result.chapters[1].verses
       IN  /\ Len(vs) >= 2
           /\ vs[1].greek = <<>>
           /\ Len(vs[2].greek) = 3
           /\ vs[2].greek[1] = vs[2].greek[3]
           /\ vs[2].greek[1] # vs[2].greek[2]

\* C22: verse numbers are positive integers: every verse of every chapter
\* of a parsed book has a number that is an integer of at least 1, whatever
\* the num attributes of the document are.
C22_PositiveVerseNumbers ==
    (bk_pc = "done" /\ ~bk_result.null) =>
        \A c \in 1..Len(bk_result.chapters) :
            \A v \in 1..Len(bk_result.chapters[c].verses) :
                /\ ~bk_result.chapters[c].verses[v].verse.nan
                /\ bk_result.chapters[c].verses[v].verse.value >= 1

(***************************************************************************)
(* Glossary term matching: buildTermLookup and matchGlossaryTerm           *)
(* (glossary.ts)                                                           *)
(***************************************************************************)

\* The characters of [\w'-].
WordChars == Range(UpperCase) \cup Range(LowerCase) \cup DigitChars \cup {"_", "'", "-"}

\* The characters of the lookahead class [\s.,;:!?'"\)].
BoundaryChars == Whitespace \cup {".", ",", ";", ":", "!", "?", "'", "\"", ")"}

\* The characters of the lemma separator class [,\s\/].
LemmaSeparators == Whitespace \cup {",", "/"}

AltSeparator == <<" ", "/", " ">>

\* The alternatives of a rendering: split on " / " and trimmed when it holds
\* " / ", else the rendering as it is.
Alternatives(aitRendering) ==
    IF Includes(aitRendering, AltSeparator)
    THEN LET parts == SplitOn(aitRendering, AltSeparator)
         IN  [k \in 1..Len(parts) |-> Trim(parts[k])]
    ELSE <<aitRendering>>

\* alt.toLowerCase().split(/\s+/)[0]
FirstWordOf(alt) == SplitOnRuns(Lower(alt), Whitespace)[1]

\* lookup.set(key, term)
MapSet(lookup, key, term) ==
    [x \in DOMAIN lookup \cup {key} |-> IF x = key THEN term ELSE lookup[x]]

RECURSIVE SetAlternatives(_, _, _, _)
\* The inner loop of buildTermLookup over the alternatives of term, from k.
SetAlternatives(lookup, term, alts, k) ==
    IF k > Len(alts) THEN lookup
    ELSE SetAlternatives(MapSet(lookup, FirstWordOf(alts[k]), term), term, alts, k + 1)

RECURSIVE BuildFrom(_, _, _)
\* The outer loop of buildTermLookup over glossaryTerms, from k.
BuildFrom(lookup, terms, k) ==
    IF k > Len(terms) THEN lookup
    ELSE BuildFrom(SetAlternatives(lookup, terms[k], Alternatives(terms[k].aitRendering), 1),
                   terms, k + 1)

\* buildTermLookup: first word (lowercased) -> term.
buildTermLookup(terms) == BuildFrom(<<>>, terms, 1)

\* termLemma.split(/[,\s\/]+/).map(l => l.trim()).filter(Boolean)
TermLemmaParts(lemma) ==
    LET parts == SplitOnRuns(Lower(lemma), LemmaSeparators)
    IN  {Trim(parts[k]) : k \in 1..Len(parts)} \ {<<>>}

\* hasMatchingLemma
HasMatchingLemma(term, lemmaSet) ==
    \E part \in TermLemmaParts(term.lemma) :
        \E vl \in lemmaSet : Includes(vl, part) \/ Includes(part, vl)

\* A lemma check that lets every term through.
LemmaCheckSkipped(term, verseLemmas) == TRUE

\* A lemma check that takes an empty verseLemmas for a filter nothing passes.
LemmaCheckEmptyRejects(term, verseLemmas) ==
    verseLemmas.supplied => HasMatchingLemma(term, verseLemmas.set)

\* The lemma check: passed when no non-empty verseLemmas is given, or when
\* the term's lemma overlaps a verse lemma.
LemmaCheck(term, verseLemmas) ==
    (verseLemmas.supplied /\ Cardinality(verseLemmas.set) > 0)
        => HasMatchingLemma(term, verseLemmas.set)

\* A pattern without the lookahead: the rendering matches whatever follows.
RenderingMatchesNoBoundary(rem, rendering) ==
    /\ Len(rendering) <= Len(rem)
    /\ \A k \in 1..Len(rendering) : LowerChar(rem[k]) = LowerChar(rendering[k])

\* remainingText.match(new RegExp(`^(${escapeRegex(rendering)})(?=[\s.,;:!?'"\)]|$)`, "i")):
\* the rendering, taken literally and without regard to case, at the start
\* of rem and followed by a boundary character or the end.
RenderingMatches(rem, rendering) ==
    /\ Len(rendering) <= Len(rem)
    /\ \A k \in 1..Len(rendering) : LowerChar(rem[k]) = LowerChar(rendering[k])
    /\ (Len(rem) = Len(rendering) \/ rem[Len(rendering) + 1] \in BoundaryChars)

\* A result that reports the glossary's rendering instead of the capture.
MatchResultFromGlossary(term, rem, rendering) ==
    [term |-> term, matchedText |-> rendering]

\* { term: potentialTerm, matchedText: match[1] }: the capture group is the
\* text's own characters.
MatchResult(term, rem, rendering) ==
    [term |-> term, matchedText |-> SubSeq(rem, 1, Len(rendering))]

\* A loop over the alternatives in which the last one that matches wins.
MatchAlternativesLastWins(term, rem, alts, k) ==
    LET hits == {j \in k..Len(alts) : RenderingMatches(rem, alts[j])}
    IN  IF hits = {} THEN <<>>
        ELSE <<MatchResult(term, rem, alts[CHOOSE j \in hits : \A h \in hits : h <= j])>>

RECURSIVE MatchAlternatives(_, _, _, _)
\* The loop over the alternatives from k: the first that matches wins.
\* Single-word and multi-word renderings are tried with the same pattern.
MatchAlternatives(term, rem, alts, k) ==
    IF k > Len(alts) THEN <<>>
    ELSE IF RenderingMatches(rem, alts[k]) THEN <<MatchResult(term, rem, alts[k])>>
    ELSE MatchAlternatives(term, rem, alts, k + 1)

\* matchGlossaryTerm(text, startIndex, verseLemmas) against termLookup, the
\* lookup pre-built from the glossary: <<>> for null.
matchGlossaryTerm(termLookup, text, startIndex, verseLemmas) ==
    LET remainingText == SubSeq(text, startIndex + 1, Len(text))
        wordLen == RunWhile(remainingText, 1, WordChars)
        firstWord == Lower(SubSeq(remainingText, 1, wordLen))
    IN  IF wordLen = 0 THEN <<>>
        ELSE IF firstWord \notin DOMAIN termLookup THEN <<>>
        ELSE LET potentialTerm == termLookup[firstWord]
             IN  IF ~LemmaCheck(potentialTerm, verseLemmas) THEN <<>>
                 ELSE MatchAlternatives(potentialTerm, remainingText,
                                        Alternatives(potentialTerm.aitRendering), 1)

GlossaryTerm(id, lemma, aitRendering) ==
    [id |-> id, lemma |-> lemma, aitRendering |-> aitRendering]

\* Terms of the glossary: a single word, a phrase, a pair of alternatives
\* with a compound lemma, and a word that also begins the phrase.
TermJust == GlossaryTerm("just", <<"D", "i", "k", "a", "i", "o", "s">>, <<"j", "u", "s", "t">>)
TermSetFree == GlossaryTerm("set-free", <<"l", "u", "o">>, <<"s", "e", "t", " ", "f", "r", "e", "e">>)
TermWay == GlossaryTerm("way", <<"o", "d", "o", "s", ",", " ", "p", "o", "r", "e", "i", "a">>, <<"W", "a", "y", " ", "/", " ", "p", "a", "t", "h">>)
TermSet == GlossaryTerm("set", <<"t", "i", "t", "h", "e", "m", "i">>, <<"s", "e", "t">>)
\* Two alternatives, the first a prefix of the second.
TermRelease == GlossaryTerm("release", <<"a", "p", "o", "l", "u", "o">>, <<"s", "e", "t", " ", "/", " ", "s", "e", "t", " ", "f", "r", "e", "e">>)

\* A phrase that begins with the first word of another phrase.
TermSetApart == GlossaryTerm("set-apart", <<"h", "a", "g", "i", "a", "z", "o">>, <<"s", "e", "t", " ", "a", "p", "a", "r", "t">>)

Glossaries ==
    {<<TermJust, TermSetFree, TermWay>>, <<TermSetFree, TermWay, TermSet, TermJust>>,
     <<TermJust, TermRelease, TermWay>>, <<TermSetFree, TermSetApart>>}

\* export const termLookup = buildTermLookup(), for each glossary.
termLookup == [g \in Glossaries |-> buildTermLookup(g)]

\* Pieces the prose is assembled from.
ProseTokens == {<<"J", "u", "s", "t">>, <<"s", "e", "t", " ", "f", "r", "e", "e">>, <<"p", "a", "t", "h">>, <<"W", "a", "y">>, <<"s">>, <<" ">>, <<".">>}

\* Longest prose, in pieces.
MaxTokens == 3

\* The lemma sets a caller may pass: none, empty, or lemmas of the verse
\* (a <w> without a lemma attribute contributes the empty lemma).
LemmaSets ==
    {NoLemmas, [supplied |-> TRUE, set |-> {}],
     [supplied |-> TRUE, set |-> {<<>>}],
     [supplied |-> TRUE, set |-> {<<"m", "o", "n", "o", "n">>}],
     [supplied |-> TRUE, set |-> {<<"m", "o", "n", "o", "n">>, <<"d", "i", "k", "a", "i", "o", "s", "u", "n", "e">>}],
     [supplied |-> TRUE, set |-> {<<"l", "u">>, <<"k", "a", "i">>}],
     [supplied |-> TRUE, set |-> {<<"p", "o", "r", "e", "i", "a">>}]}

GmInit ==
    /\ gm_pc = "ready"
    /\ gm_glossary \in Glossaries
    /\ gm_text \in {Concat(ts) : ts \in SeqUpTo(ProseTokens, MaxTokens)}
    /\ gm_lemmas \in LemmaSets
    /\ gm_start = 0
    /\ gm_result = <<>>

\* A caller probes the text at one offset.
Probe ==
    /\ gm_pc = "ready"
    /\ \E i \in 0..Len(gm_text) :
          /\ gm_start' = i
          /\ gm_result' = matchGlossaryTerm(termLookup[gm_glossary], gm_text, i, gm_lemmas)
    /\ gm_pc' = "probed"
    /\ UNCHANGED <<gm_glossary, gm_text, gm_lemmas, notGm>>

GmNext == Probe

MatchInit == GmInit /\ MdIdle /\ PgIdle /\ TxIdle /\ BkIdle /\ DcIdle /\ RdIdle /\ SpIdle

SpecMatch == MatchInit /\ [][GmNext]_vars

\* The fragments of a term's lemma: the maximal runs of characters other
\* than comma, slash and whitespace of the lowercased lemma.
LemmaFragments(lemma) ==
    LET l == Lower(lemma)
        sep(i) == i < 1 \/ i > Len(l) \/ l[i] \in LemmaSeparators
    IN  {SubSeq(l, a, b) : <<a, b>> \in
            {p \in (1..Len(l)) \X (1..Len(l)) :
                /\ p[1] <= p[2]
                /\ \A i \in p[1]..p[2] : ~sep(i)
                /\ sep(p[1] - 1) /\ sep(p[2] + 1)}}

\* C5: lemma disambiguation: with a non-empty verseLemmas, a match for term T
\* is returned only if some fragment of T's lemma is a substring of a verse
\* lemma or contains one.
C5_LemmaDisambiguation ==
    (gm_pc = "probed" /\ gm_lemmas.supplied /\ gm_lemmas.set # {} /\ gm_result # <<>>) =>
        \E frag \in LemmaFragments(gm_result[1].term.lemma) :
            \E vl \in gm_lemmas.set : Includes(vl, frag) \/ Includes(frag, vl)

\* "Just" is matched when the verse holds a lemma that contains the term's.
C5_Witness ==
    /\ gm_pc = "probed"
    /\ gm_lemmas.supplied /\ <<"d", "i", "k", "a", "i", "o", "s", "u", "n", "e">> \in gm_lemmas.set
    /\ gm_result # <<>>
    /\ gm_result[1].term = TermJust

\* "Just" is not matched, though the word and the rendering match the text,
\* when the verse lemmas do not overlap the term's lemma.
C5_WitnessRejected ==
    /\ gm_pc = "probed"
    /\ gm_lemmas = [supplied |-> TRUE, set |-> {<<"m", "o", "n", "o", "n">>}]
    /\ gm_result = <<>>
    /\ matchGlossaryTerm(termLookup[gm_glossary], gm_text, gm_start, NoLemmas) # <<>>

\* Whitespace and punctuation.
Punctuation == {".", ",", ";", ":", "!", "?", "'", "\"", ")", "(", "-"}

\* C6: word boundary: the character after the matched text, if there is
\* one, is whitespace or punctuation.
C6_WordBoundary ==
    (gm_pc = "probed" /\ gm_result # <<>>) =>
        LET after == gm_start + Len(gm_result[1].matchedText)
        IN  after = Len(gm_text) \/ gm_text[after + 1] \in Whitespace \cup Punctuation

\* The phrase is matched before a boundary character inside the text.
C6_Witness ==
    /\ gm_pc = "probed"
    /\ gm_result # <<>>
    /\ gm_result[1].term = TermSetFree
    /\ gm_start + Len(gm_result[1].matchedText) < Len(gm_text)

\* C10: matchedText is the consumed substring: non-empty, and the text's own
\* characters from startIndex on.
C10_MatchedTextIsSlice ==
    (gm_pc = "probed" /\ gm_result # <<>>) =>
        LET m == gm_result[1].matchedText
        IN  /\ Len(m) > 0
            /\ gm_start + Len(m) <= Len(gm_text)
            /\ m = SubSeq(gm_text, gm_start + 1, gm_start + Len(m))

\* A match, past offset 0, whose case differs from the glossary rendering.
C10_Witness ==
    /\ gm_pc = "probed"
    /\ gm_result # <<>>
    /\ gm_start > 0
    /\ gm_result[1].matchedText \notin Range(Alternatives(gm_result[1].term.aitRendering))

\* alt, taken without regard to case, stands at the start of rem and is
\* followed by a boundary character or by the end of rem.
AltHit(rem, alt) ==
    /\ Len(alt) <= Len(rem)
    /\ Lower(SubSeq(rem, 1, Len(alt))) = Lower(alt)
    /\ (Len(rem) = Len(alt) \/ rem[Len(alt) + 1] \in BoundaryChars)

\* The text from the probed offset on, its leading word in lower case, and
\* the declared alternatives that hit at the offset.
ProbedRest == SubSeq(gm_text, gm_start + 1, Len(gm_text))
ProbedWord == Lower(SubSeq(ProbedRest, 1, RunWhile(ProbedRest, 1, WordChars)))
ProbedHits(term) ==
    {k \in 1..Len(Alternatives(term.aitRendering)) :
        AltHit(ProbedRest, Alternatives(term.aitRendering)[k])}

\* C11: alternative order: once the first word is a key of the lookup table
\* (and the lemma filter lets the term through), the result is the match of
\* the first declared alternative that hits at the offset, a later
\* alternative only when every earlier one fails, and null when none hits.
C11_AlternativeOrder ==
    (/\ gm_pc = "probed"
     /\ ProbedWord # <<>>
     /\ ProbedWord \in DOMAIN termLookup[gm_glossary]
     /\ LemmaCheck(termLookup[gm_glossary][ProbedWord], gm_lemmas)) =>
        LET term == termLookup[gm_glossary][ProbedWord]
            alts == Alternatives(term.aitRendering)
            hits == ProbedHits(term)
        IN  IF hits = {} THEN gm_result = <<>>
            ELSE LET first == CHOOSE k \in hits : \A h \in hits : k <= h
                 IN  gm_result =
                        <<[term |-> term,
                           matchedText |-> SubSeq(ProbedRest, 1, Len(alts[first]))]>>

\* Both alternatives of "set / set free" hit on "set free"; the first one,
\* "set", is returned.
C11_Witness ==
    /\ gm_pc = "probed"
    /\ gm_result # <<>>
    /\ gm_result[1].term = TermRelease
    /\ ProbedHits(TermRelease) = {1, 2}
    /\ gm_result[1].matchedText = <<"s", "e", "t">>

\* "path" is matched by the second alternative of "Way / path", the first
\* having failed.
C11_WitnessLater ==
    /\ gm_pc = "probed"
    /\ gm_result # <<>>
    /\ gm_result[1].term = TermWay
    /\ ProbedHits(TermWay) = {2}

\* The first word is a key of the lookup table, the lemma filter is not in
\* force, and no alternative hits: null.
C11_WitnessNone ==
    /\ gm_pc = "probed"
    /\ gm_result = <<>>
    /\ gm_lemmas = NoLemmas
    /\ ProbedWord \in DOMAIN termLookup[gm_glossary]
    /\ ProbedHits(termLookup[gm_glossary][ProbedWord]) = {}

\* The result of the first-word lookup and the full-phrase confirmation
\* alone: null when the probed word is no key, else the match of the first
\* alternative of the key's term that hits, whatever the term's lemma.
PhraseOnly ==
    IF ProbedWord = <<>> \/ ProbedWord \notin DOMAIN termLookup[gm_glossary] THEN <<>>
    ELSE LET term == termLookup[gm_glossary][ProbedWord]
             hits == ProbedHits(term)
         IN  IF hits = {} THEN <<>>
             ELSE <<[term |-> term,
                     matchedText |->
                        SubSeq(ProbedRest, 1,
                               Len(Alternatives(term.aitRendering)
                                       [CHOOSE k \in hits : \A h \in hits : k <= h]))]>>

C12_WitnessAbsent ==
    /\ gm_pc = "probed"
    /\ gm_lemmas = NoLemmas
    /\ gm_result # <<>>
    /\ gm_result[1].term = TermSetFree

\* The terms of the glossary with an alternative rendering that stands at
\* the start of text before a boundary.
TermsAt(glossary, text) ==
    {t \in 1..Len(glossary) :
        \E a \in 1..Len(Alternatives(glossary[t].aitRendering)) :
            AltHit(text, Alternatives(glossary[t].aitRendering)[a])}

\* C28: every glossary term is reachable through the first-word lookup: a
\* probe at offset 0 without verseLemmas, on a text that begins with an
\* alternative rendering of a term T before a boundary (and with no
\* rendering of another term), returns a match of T.
C28_EveryTermReachable ==
    (gm_pc = "probed" /\ gm_start = 0 /\ ~gm_lemmas.supplied) =>
        \A t \in TermsAt(gm_glossary, gm_text) :
            TermsAt(gm_glossary, gm_text) = {t} =>
                /\ gm_result # <<>>
                /\ gm_result[1].term = gm_glossary[t]

(***************************************************************************)
(* Book files, the book cache and the legacy projection (data.ts)          *)
(***************************************************************************)

RECURSIVE ParseVerses(_, _)
\* The loop of parseAITXml over the verse elements of a chapter, from j.
ParseVerses(verseEls, j) ==
    IF j > Len(verseEls) THEN <<>>
    ELSE parseVerse(verseEls[j]) \o ParseVerses(verseEls, j + 1)

\* parseAITXml as a function of the document: null when parsing throws or
\* there is no <book>.
parseAITXml(doc) ==
    IF doc.throws \/ ~doc.hasBook THEN NullBook
    ELSE [null |-> FALSE, id |-> OrElse(doc.id, <<>>), name |-> OrElse(doc.name, <<>>),
          chapters |->
              [c \in 1..Len(doc.chapters) |->
                  [chapter |-> parseInt(OrElse(doc.chapters[c].num, <<"0">>)),
                   verses |-> ParseVerses(doc.chapters[c].verseEls, 1)]]]

\* a === b on numbers: NaN equals nothing.
StrictEquals(a, b) == ~a.nan /\ ~b.nan /\ a.value = b.value

\* A number as parseInt returns it.
Num(n) == [nan |-> FALSE, value |-> n]
NaN == [nan |-> TRUE, value |-> 0]

\* array.find(c => c[field] === num) ?? null: <<>> or the first element
\* whose number is num.
Find(seq, field, num) ==
    LET at == {k \in 1..Len(seq) : StrictEquals(seq[k][field], num)}
    IN  IF at = {} THEN <<>> ELSE <<seq[CHOOSE k \in at : \A h \in at : k <= h]>>

\* Array.join(sep) of a sequence of strings.
Join(ss, sep) ==
    Concat([k \in 1..Len(ss) |-> IF k = 1 THEN ss[k] ELSE sep \o ss[k]])

\* `**"${n.term}"**: ${n.explanation}`
NoteLine(n) ==
    <<Star, Star, "\"">> \o n.term \o <<"\"", Star, Star, ":", " ">> \o n.explanation

\* A projection whose notes blob holds the first note of each verse only.
convertXmlToLegacyFirstNotes(xmlBook) ==
    [book |-> xmlBook.name,
     chapters |->
        [c \in 1..Len(xmlBook.chapters) |->
            LET chapter == xmlBook.chapters[c]
                notes == Concat([v \in 1..Len(chapter.verses) |->
                                    IF chapter.verses[v].notes = <<>> THEN <<>>
                                    ELSE <<chapter.verses[v].notes[1]>>])
            IN  [chapter |-> chapter.chapter,
                 verses |-> [v \in 1..Len(chapter.verses) |->
                               [verse |-> chapter.verses[v].verse,
                                text |-> chapter.verses[v].text,
                                paragraphStart |-> chapter.verses[v].paragraphStart]],
                 notes |-> Join([k \in 1..Len(notes) |-> NoteLine(notes[k])],
                                <<"\n", "\n">>)]]]

\* convertXmlToLegacy
convertXmlToLegacy(xmlBook) ==
    [book |-> xmlBook.name,
     chapters |->
        [c \in 1..Len(xmlBook.chapters) |->
            LET chapter == xmlBook.chapters[c]
                notes == Concat([v \in 1..Len(chapter.verses) |-> chapter.verses[v].notes])
            IN  [chapter |-> chapter.chapter,
                 verses |-> [v \in 1..Len(chapter.verses) |->
                               [verse |-> chapter.verses[v].verse,
                                text |-> chapter.verses[v].text,
                                paragraphStart |-> chapter.verses[v].paragraphStart]],
                 notes |-> Join([k \in 1..Len(notes) |-> NoteLine(notes[k])],
                                <<"\n", "\n">>)]]]

\* path.join(dataDir, `${key}.xml`) when nothing is there.
NoFile == [exists |-> FALSE, doc |-> NoDocument]
XmlFile(doc) == [exists |-> TRUE, doc |-> doc]

\* fs.readFileSync: throws when the file does not exist.
ReadFile(files, key) ==
    IF files[key].exists THEN [threw |-> FALSE, content |-> files[key].doc]
    ELSE [threw |-> TRUE, content |-> NoDocument]

\* What a call returns: the module state after it, its value (<<>> for
\* null) and whether it threw to its caller.
Returned(st, value) == [st |-> st, value |-> value, threw |-> FALSE]
Thrown(st) == [st |-> st, value |-> <<>>, threw |-> TRUE]

\* st after one more readFileSync of the XML file of key.
AfterRead(st, key) == [st EXCEPT !.reads[key] = @ + 1]

\* bookCache.set(cacheKey, parsed); return parsed
Cached(st, cacheKey, book) ==
    Returned([st EXCEPT !.bookCache = MapSet(@, cacheKey, book), !.objs = @ + 1],
             <<book>>)

\* The try block of getXmlBookData once the file is read and parsed: the
\* book is cached and returned, a failed read or a null parse gives null.
\* Every parse creates a new object, numbered by st.objs.
LoadedBook(st, cacheKey, file, parsed) ==
    IF file.threw \/ parsed.null THEN Returned(AfterRead(st, cacheKey), <<>>)
    ELSE Cached(AfterRead(st, cacheKey), cacheKey, [obj |-> st.objs + 1, book |-> parsed])

\* The try block of getXmlBookData: readFileSync, then parseAITXml.
LoadBook(st, files, cacheKey) ==
    LoadedBook(st, cacheKey, ReadFile(files, cacheKey),
               parseAITXml(ReadFile(files, cacheKey).content))

\* A getXmlBookData without the cache check: every call loads the file.
getXmlBookDataAlwaysLoads(st, files, bookId) ==
    LoadBook(st, files, Lower(bookId))

\* A getXmlBookData without the try block: a failed read reaches the caller.
getXmlBookDataUncaught(st, files, bookId) ==
    IF Lower(bookId) \in DOMAIN st.bookCache
    THEN Returned(st, <<st.bookCache[Lower(bookId)]>>)
    ELSE IF ReadFile(files, Lower(bookId)).threw
    THEN Thrown(AfterRead(st, Lower(bookId)))
    ELSE LoadBook(st, files, Lower(bookId))

\* A getXmlBookData that remembers a failed load: null is cached and
\* returned from then on.
getXmlBookDataCachesNull(st, files, bookId) ==
    IF Lower(bookId) \in DOMAIN st.bookCache
    THEN Returned(st, IF st.bookCache[Lower(bookId)].book.null THEN <<>>
                      ELSE <<st.bookCache[Lower(bookId)]>>)
    ELSE IF ReadFile(files, Lower(bookId)).threw
            \/ parseAITXml(ReadFile(files, Lower(bookId)).content).null
    THEN Returned([AfterRead(st, Lower(bookId)) EXCEPT
                      !.bookCache = MapSet(@, Lower(bookId), [obj |-> 0, book |-> NullBook])],
                  <<>>)
    ELSE LoadBook(st, files, Lower(bookId))

\* getXmlBookData: the cached book, else the file read and parsed.
getXmlBookData(st, files, bookId) ==
    IF Lower(bookId) \in DOMAIN st.bookCache
    THEN Returned(st, <<st.bookCache[Lower(bookId)]>>)
    ELSE LoadBook(st, files, Lower(bookId))

\* What getXmlChapter makes of the book call r: null, or the chapter.
ChapterOf(r, chapterNum) ==
    IF r.threw \/ r.value = <<>> THEN r
    ELSE [r EXCEPT !.value = Find(r.value[1].book.chapters, "chapter", chapterNum)]

\* getXmlChapter
getXmlChapter(st, files, bookId, chapterNum) ==
    ChapterOf(getXmlBookData(st, files, bookId), chapterNum)

\* What getXmlVerse makes of the chapter call r: null, or the verse.
VerseOf(r, verseNum) ==
    IF r.threw \/ r.value = <<>> THEN r
    ELSE [r EXCEPT !.value = Find(r.value[1].verses, "verse", verseNum)]

\* getXmlVerse
getXmlVerse(st, files, bookId, chapterNum, verseNum) ==
    VerseOf(getXmlChapter(st, files, bookId, chapterNum), verseNum)

\* data/<key>.json when nothing is there.
NoJson == [exists |-> FALSE, valid |-> FALSE, book |-> [book |-> <<>>, chapters |-> <<>>]]

\* The JSON fallback of getBookData: the parsed file, or null.
JsonBook(st, json, key) ==
    IF json[key].exists /\ json[key].valid
    THEN Returned(st, <<json[key].book>>) ELSE Returned(st, <<>>)

\* What getBookData makes of the XML book call r: its legacy projection,
\* or the JSON fallback when there is no book.
LegacyOf(r, json, key) ==
    IF r.threw THEN r
    ELSE IF r.value # <<>>
    THEN [r EXCEPT !.value = <<convertXmlToLegacy(r.value[1].book)>>]
    ELSE JsonBook(r.st, json, key)

\* getBookData: the XML book when there is an XML file, else the JSON file.
getBookData(st, files, json, bookId) ==
    IF files[Lower(bookId)].exists
    THEN LegacyOf(getXmlBookData(st, files, bookId), json, Lower(bookId))
    ELSE JsonBook(st, json, Lower(bookId))

(***************************************************************************)
(* The KJV text (data.ts) and verse search (search.ts)                     *)
(***************************************************************************)

Mark == <<"m", "a", "r", "k">>
John == <<"j", "o", "h", "n">>

\* books (books.ts), shortened to two entries.
books ==
    <<[id |-> Mark, name |-> <<"M", "a", "r", "k">>],
      [id |-> John, name |-> <<"J", "o", "h", "n">>]>>

\* kjvFileNames: book id -> KJV file name, for the same two books.
kjvFileNames == [k \in {Mark, John} |-> IF k = Mark THEN "Mark" ELSE "John"]

\* data/kjv/<Name>.json when nothing is there.
NoKjvFile == [exists |-> FALSE, valid |-> FALSE, chapters |-> <<>>]

RECURSIVE KjvVerses(_, _, _)
\* The loop over chapter.verses: bookData[chapterNum][verseNum] = verse.text
KjvVerses(verses, k, acc) ==
    IF k > Len(verses) THEN acc
    ELSE KjvVerses(verses, k + 1, MapSet(acc, parseInt(verses[k].verse), verses[k].text))

RECURSIVE KjvChapters(_, _, _)
\* The loop over data.chapters: bookData[chapterNum] = {} and its verses.
KjvChapters(chapters, k, acc) ==
    IF k > Len(chapters) THEN acc
    ELSE KjvChapters(chapters, k + 1,
                     MapSet(acc, parseInt(chapters[k].chapter),
                            KjvVerses(chapters[k].verses, 1, <<>>)))

\* The try block of loadKjvBook: the file read, parsed and indexed by
\* chapter and verse number, cached and returned; null when that fails.
LoadKjv(st, file, cacheKey) ==
    IF ~file.exists \/ ~file.valid THEN Returned(st, <<>>)
    ELSE Returned([st EXCEPT !.kjvCache =
                      MapSet(@, cacheKey, KjvChapters(file.chapters, 1, <<>>))],
                  <<KjvChapters(file.chapters, 1, <<>>)>>)

\* loadKjvBook: the cached map, else the load; null for an unknown book.
loadKjvBook(st, kjvFiles, bookId) ==
    IF Lower(bookId) \in DOMAIN st.kjvCache
    THEN Returned(st, <<st.kjvCache[Lower(bookId)]>>)
    ELSE IF Lower(bookId) \notin DOMAIN kjvFileNames THEN Returned(st, <<>>)
    ELSE LoadKjv(st, kjvFiles[kjvFileNames[Lower(bookId)]], Lower(bookId))

\* What getKjvChapter makes of the book call r: book[chapterNum] ?? null
KjvChapterOf(r, chapterNum) ==
    IF r.value = <<>> THEN r
    ELSE IF chapterNum \in DOMAIN r.value[1]
    THEN [r EXCEPT !.value = <<r.value[1][chapterNum]>>]
    ELSE [r EXCEPT !.value = <<>>]

\* getKjvChapter
getKjvChapter(st, kjvFiles, bookId, chapterNum) ==
    KjvChapterOf(loadKjvBook(st, kjvFiles, bookId), chapterNum)

\* const maxTotal = 500
maxTotal == 500

\* kjvChapter?.[verse.verse] ?? null
KjvText(kjvChapter, verseNum) ==
    IF kjvChapter # <<>> /\ verseNum \in DOMAIN kjvChapter[1]
    THEN <<kjvChapter[1][verseNum]>> ELSE <<>>

\* matchedIn for one verse.
MatchedIn(aitText, kjvText, searchTerm) ==
    (IF Includes(Lower(aitText), searchTerm) THEN <<"ait">> ELSE <<>>)
        \o (IF kjvText # <<>> /\ kjvText[1] # <<>>
               /\ Includes(Lower(kjvText[1]), searchTerm)
            THEN <<"kjv">> ELSE <<>>)

\* The body of the verse loop: allMatches after one verse.
SearchVerse(bookInfo, chapterNum, verse, kjvText, matchedIn, allMatches) ==
    IF matchedIn = <<>> THEN allMatches
    ELSE Append(allMatches,
                [bookId |-> bookInfo.id, bookName |-> bookInfo.name,
                 chapter |-> chapterNum, verse |-> verse.verse,
                 aitText |-> verse.text, kjvText |-> kjvText,
                 matchedIn |-> matchedIn])

RECURSIVE SearchChapterVerses(_, _, _, _, _, _)
\* The loop over chapter.verses from v: allMatches after it.
SearchChapterVerses(bookInfo, chapter, kjvChapter, searchTerm, v, allMatches) ==
    IF v > Len(chapter.verses) \/ Len(allMatches) >= maxTotal THEN allMatches
    ELSE SearchChapterVerses(
             bookInfo, chapter, kjvChapter, searchTerm, v + 1,
             SearchVerse(bookInfo, chapter.chapter, chapter.verses[v],
                         KjvText(kjvChapter, chapter.verses[v].verse),
                         MatchedIn(chapter.verses[v].text,
                                   KjvText(kjvChapter, chapter.verses[v].verse),
                                   searchTerm),
                         allMatches))

\* The state and the matches a loop of searchVerses has reached.
Found(st, allMatches, threw) == [st |-> st, allMatches |-> allMatches, threw |-> threw]

RECURSIVE SearchBookChapters(_, _, _, _, _, _, _)
RECURSIVE SearchChapter(_, _, _, _, _, _, _)
\* The body of the chapter loop, k being what getKjvChapter returned.
SearchChapter(k, kjvFiles, bookInfo, book, searchTerm, c, allMatches) ==
    SearchBookChapters(k.st, kjvFiles, bookInfo, book, searchTerm, c + 1,
                       SearchChapterVerses(bookInfo, book.chapters[c], k.value,
                                           searchTerm, 1, allMatches))

\* The loop over book.chapters from c: the state and allMatches after it.
SearchBookChapters(st, kjvFiles, bookInfo, book, searchTerm, c, allMatches) ==
    IF c > Len(book.chapters) \/ Len(allMatches) >= maxTotal
    THEN Found(st, allMatches, FALSE)
    ELSE SearchChapter(getKjvChapter(st, kjvFiles, bookInfo.id, book.chapters[c].chapter),
                       kjvFiles, bookInfo, book, searchTerm, c, allMatches)

RECURSIVE SearchBooks(_, _, _, _, _, _)
RECURSIVE SearchBook(_, _, _, _, _, _)
RECURSIVE SearchNextBook(_, _, _, _, _)
\* After the chapters of book b: on to the next book.
SearchNextBook(found, files, kjvFiles, searchTerm, b) ==
    SearchBooks(found.st, files, kjvFiles, searchTerm, b + 1, found.allMatches)

\* The body of the book loop, r being what getXmlBookData returned.
SearchBook(r, files, kjvFiles, searchTerm, b, allMatches) ==
    IF r.threw THEN Found(r.st, allMatches, TRUE)
    ELSE IF r.value = <<>>
    THEN SearchBooks(r.st, files, kjvFiles, searchTerm, b + 1, allMatches)
    ELSE SearchNextBook(SearchBookChapters(r.st, kjvFiles, books[b], r.value[1].book,
                                           searchTerm, 1, allMatches),
                        files, kjvFiles, searchTerm, b)

\* The loop over books from b: the state and allMatches after it.
SearchBooks(st, files, kjvFiles, searchTerm, b, allMatches) ==
    IF b > Len(books) \/ Len(allMatches) >= maxTotal
    THEN Found(st, allMatches, FALSE)
    ELSE SearchBook(getXmlBookData(st, files, books[b].id), files, kjvFiles,
                    searchTerm, b, allMatches)

\* array.slice(from, to) for 0 <= from <= to.
Slice(seq, from, to) ==
    SubSeq(seq, from + 1, IF to < Len(seq) THEN to ELSE Len(seq))

\* A response whose hasMore is still true on the page that ends the list.
SearchResponseInclusive(found, limit, offset) ==
    IF found.threw THEN Thrown(found.st)
    ELSE Returned(found.st,
                  <<[results |-> Slice(found.allMatches, offset, offset + limit),
                     total |-> Len(found.allMatches),
                     hasMore |-> offset + limit <= Len(found.allMatches)]>>)

\* The response of searchVerses from what its loops found.
SearchResponse(found, limit, offset) ==
    IF found.threw THEN Thrown(found.st)
    ELSE Returned(found.st,
                  <<[results |-> Slice(found.allMatches, offset, offset + limit),
                     total |-> Len(found.allMatches),
                     hasMore |-> offset + limit < Len(found.allMatches)]>>)

\* searchVerses
searchVerses(st, files, kjvFiles, query, limit, offset) ==
    IF query = <<>> \/ Len(Trim(query)) < 3
    THEN Returned(st, <<[results |-> <<>>, total |-> 0, hasMore |-> FALSE]>>)
    ELSE SearchResponse(SearchBooks(st, files, kjvFiles, Trim(Lower(query)), 1, <<>>),
                        limit, offset)

\* Book documents on disk.
DataVerse(num, chars, notes) ==
    VerseElement(num, Element("text", "", <<TextNode(chars)>>), NoGreek, notes)
BookDocument(id, name, chapters) ==
    [throws |-> FALSE, hasBook |-> TRUE, id |-> id, name |-> name, chapters |-> chapters]

MarkDocument ==
    BookDocument(Mark, <<"M", "a", "r", "k">>,
        <<ChapterElement(<<"1">>,
              <<DataVerse(<<"1">>, <<"t", "h", "e", " ", "W", "a", "y">>, <<>>),
                DataVerse(<<"2">>, <<"a", " ", "w", "a", "y">>,
                          <<Note(<<"n">>, TxA), Note(AttrNull, TxItalic)>>)>>),
          ChapterElement(<<"2">>,
              <<VerseElement(<<"1">>,
                             Element("text", "", <<Element("p", "", <<>>),
                                                   TextNode(<<"o", "n", "e">>)>>),
                             NoGreek, <<Note(<<"m">>, TxA)>>)>>)>>)

\* A later export of the same book.
MarkRevised ==
    BookDocument(Mark, <<"M", "a", "r", "k">>,
        <<ChapterElement(<<"1">>, <<DataVerse(<<"1">>, <<"n", "e", "w", " ", "w", "a", "y">>, <<>>)>>)>>)

JohnDocument ==
    BookDocument(John, <<"J", "o", "h", "n">>,
        <<ChapterElement(<<"1">>, <<DataVerse(<<"1">>, <<"a", "w", "a", "y">>, <<>>)>>)>>)

\* The book ids callers pass, and the file keys they lower to.
BookIdArgs == {Mark, <<"M", "a", "r", "k">>, John}
FileKeys == {Lower(id) : id \in BookIdArgs}

\* What the translator exports to the data directory.
Exports == [k \in FileKeys |-> IF k = Mark THEN {MarkDocument, MarkRevised} ELSE {JohnDocument}]

\* What may lie in the data directory when the process starts: nothing, a
\* file that is not well-formed XML, a file without <book>, or a book.
StartFiles ==
    [k \in FileKeys |->
        IF k = Mark
        THEN {NoFile, XmlFile(NoDocument), XmlFile([NoDocument EXCEPT !.throws = TRUE]),
              XmlFile(MarkDocument)}
        ELSE {NoFile, XmlFile(JohnDocument)}]

\* The legacy JSON and the KJV files: none, or a JSON book of John and the
\* KJV of Mark.
JohnJson ==
    [exists |-> TRUE, valid |-> TRUE,
     book |-> [book |-> <<"J", "o", "h", "n">>, chapters |-> <<>>]]
MarkKjv ==
    [exists |-> TRUE, valid |-> TRUE,
     chapters |-> <<[chapter |-> <<"1">>,
                     verses |-> <<[verse |-> <<"1">>, text |-> <<"T", "h", "e", " ", "w", "a", "y">>],
                                  [verse |-> <<"3">>, text |-> <<"w", "a", "y">>]>>]>>]

\* Most calls and file exports in one run.
MaxCalls == 4

DcInit ==
    /\ dc_files \in {f \in [FileKeys -> UNION {StartFiles[k] : k \in FileKeys}] :
                        \A k \in FileKeys : f[k] \in StartFiles[k]}
    /\ \E legacy \in BOOLEAN :
          /\ dc_json = [k \in FileKeys |-> IF legacy /\ k = John THEN JohnJson ELSE NoJson]
          /\ dc_kjvFiles = [n \in {"Mark", "John"} |->
                               IF legacy /\ n = "Mark" THEN MarkKjv ELSE NoKjvFile]
    /\ dc_bookCache = <<>>
    /\ dc_kjvCache = <<>>
    /\ dc_reads = [k \in FileKeys |-> 0]
    /\ dc_objs = 0
    /\ dc_calls = 0
    /\ dc_last = NoCall

\* The module state a call starts from.
ModuleState ==
    [bookCache |-> dc_bookCache, kjvCache |-> dc_kjvCache, reads |-> dc_reads,
     objs |-> dc_objs]

\* The step of a call `op' on bookId (or query) and the numbers nums that
\* returned r.
Called(op, bookId, nums, r) ==
    /\ dc_bookCache' = r.st.bookCache
    /\ dc_kjvCache' = r.st.kjvCache
    /\ dc_reads' = r.st.reads
    /\ dc_objs' = r.st.objs
    /\ dc_calls' = dc_calls + 1
    /\ dc_last' = [op |-> op, bookId |-> bookId, nums |-> nums, value |-> r.value,
                    threw |-> r.threw]
    /\ UNCHANGED <<dc_files, dc_json, dc_kjvFiles, notDc>>

CallGetXmlBookData ==
    /\ dc_calls < MaxCalls
    /\ \E bookId \in BookIdArgs :
          Called("getXmlBookData", bookId, <<>>, getXmlBookData(ModuleState, dc_files, bookId))

\* The chapter and verse numbers of the calls.
ChapterArgs == {<<<<"M", "a", "r", "k">>, Num(1)>>, <<Mark, Num(3)>>, <<John, NaN>>}
VerseArgs == {<<Mark, Num(1), Num(2)>>, <<Mark, Num(1), Num(3)>>, <<John, Num(2), Num(1)>>}

CallGetXmlChapter ==
    /\ dc_calls < MaxCalls
    /\ \E a \in ChapterArgs :
          Called("getXmlChapter", a[1], <<a[2]>>, getXmlChapter(ModuleState, dc_files, a[1], a[2]))

CallGetXmlVerse ==
    /\ dc_calls < MaxCalls
    /\ \E a \in VerseArgs :
          Called("getXmlVerse", a[1], <<a[2], a[3]>>, getXmlVerse(ModuleState, dc_files, a[1], a[2], a[3]))

CallGetBookData ==
    /\ dc_calls < MaxCalls
    /\ \E bookId \in {Mark, John} :
          Called("getBookData", bookId, <<>>, getBookData(ModuleState, dc_files, dc_json, bookId))

\* The queries of the search route, with limit and offset.
SearchArgs ==
    {<<<<"w", "a", "y">>, 10, 0>>, <<<<" ", "W", "A", "Y", " ">>, 1, 1>>,
     <<<<"a", "b">>, 10, 0>>}

CallSearchVerses ==
    /\ dc_calls < MaxCalls
    /\ \E a \in SearchArgs :
          Called("searchVerses", a[1], <<a[2], a[3]>>,
                 searchVerses(ModuleState, dc_files, dc_kjvFiles, a[1], a[2], a[3]))

\* The translator exports a book file while the process runs.
FileWritten ==
    /\ dc_calls < MaxCalls
    /\ \E k \in FileKeys : \E doc \in Exports[k] :
          /\ dc_files[k] # XmlFile(doc)
          /\ dc_files' = [dc_files EXCEPT ![k] = XmlFile(doc)]
    /\ dc_calls' = dc_calls + 1
    /\ dc_last' = [NoCall EXCEPT !.op = "export"]
    /\ UNCHANGED <<dc_json, dc_kjvFiles, dc_bookCache, dc_kjvCache, dc_reads, dc_objs,
                   notDc>>

DcNext ==
    \/ CallGetXmlBookData
    \/ CallGetXmlChapter
    \/ CallGetXmlVerse
    \/ CallGetBookData
    \/ CallSearchVerses
    \/ FileWritten

DataInit == DcInit /\ MdIdle /\ PgIdle /\ TxIdle /\ BkIdle /\ GmIdle /\ RdIdle /\ SpIdle

SpecData == DataInit /\ [][DcNext]_vars

\* C18: the book cache is write-once: in every step, an entry that exists
\* stays as it is and its file is not read again; an entry appears only
\* with a read of a file that holds a book; and a call for a cached id, in
\* any letter case, returns the cached object (or a chapter or verse of it).
C18_CacheWriteOnce ==
    [][/\ \A k \in DOMAIN dc_bookCache :
             /\ k \in DOMAIN dc_bookCache'
             /\ dc_bookCache'[k] = dc_bookCache[k]
             /\ dc_reads'[k] = dc_reads[k]
       /\ \A k \in DOMAIN dc_bookCache' \ DOMAIN dc_bookCache :
             /\ dc_reads'[k] = dc_reads[k] + 1
             /\ dc_files[k].exists /\ dc_files[k].doc.hasBook /\ ~dc_files[k].doc.throws
             /\ dc_calls' = dc_calls + 1 /\ dc_last'.op # "export"
       /\ (/\ dc_calls' = dc_calls + 1
           /\ dc_last'.op \in {"getXmlBookData", "getXmlChapter", "getXmlVerse"}
           /\ Lower(dc_last'.bookId) \in DOMAIN dc_bookCache) =>
              LET cached == dc_bookCache[Lower(dc_last'.bookId)]
              IN  CASE dc_last'.op = "getXmlBookData" -> dc_last'.value = <<cached>>
                    [] dc_last'.op = "getXmlChapter" ->
                          \/ dc_last'.value = <<>>
                          \/ dc_last'.value[1] \in Range(cached.book.chapters)
                    [] OTHER ->
                          \/ dc_last'.value = <<>>
                          \/ \E c \in Range(cached.book.chapters) :
                                dc_last'.value[1] \in Range(c.verses)]_vars

\* The book was loaded once, its file has been exported anew since, and a
\* call with the id in another letter case still returns the cached book.
C18_Witness ==
    /\ dc_last.op = "getXmlBookData"
    /\ dc_last.bookId = <<"M", "a", "r", "k">>
    /\ Mark \in DOMAIN dc_bookCache
    /\ dc_last.value = <<dc_bookCache[Mark]>>
    /\ dc_bookCache[Mark].book = parseAITXml(MarkDocument)
    /\ dc_files[Mark] = XmlFile(MarkRevised)
    /\ dc_reads[Mark] = 1

\* The last call's book: there is a file and it holds a <book>.
LastBookExists ==
    LET file == dc_files[Lower(dc_last.bookId)]
    IN  file.exists /\ ~file.doc.throws /\ file.doc.hasBook

\* C19: absence is a value, not an exception: no call throws to its
\* caller; getXmlBookData returns null when the file is missing, is not
\* well-formed or has no <book>; getXmlChapter and getXmlVerse return null
\* when the book, the chapter or the verse does not exist, and the chapter
\* or verse of that number when it does.
C19_AbsenceIsNull ==
    /\ ~dc_last.threw
    /\ dc_last.op = "getXmlBookData" => (dc_last.value = <<>> <=> ~LastBookExists)
    /\ dc_last.op \in {"getXmlChapter", "getXmlVerse"} =>
          LET chapters ==
                  IF LastBookExists
                  THEN {c \in Range(dc_bookCache[Lower(dc_last.bookId)].book.chapters) :
                           c.chapter = dc_last.nums[1] /\ ~c.chapter.nan}
                  ELSE {}
              verses ==
                  IF dc_last.op = "getXmlVerse"
                  THEN {v \in UNION {Range(c.verses) : c \in chapters} :
                           v.verse = dc_last.nums[2] /\ ~v.verse.nan}
                  ELSE {}
          IN  IF dc_last.op = "getXmlChapter"
              THEN IF chapters = {} THEN dc_last.value = <<>>
                   ELSE dc_last.value # <<>> /\ dc_last.value[1] \in chapters
              ELSE IF verses = {} THEN dc_last.value = <<>>
                   ELSE dc_last.value # <<>> /\ dc_last.value[1] \in verses

\* getXmlBookData returned null for a file that is not well-formed, after
\* an earlier call.
C19_Witness ==
    /\ dc_last.op = "getXmlBookData"
    /\ dc_last.value = <<>> /\ ~dc_last.threw
    /\ dc_files[Lower(dc_last.bookId)].exists
    /\ dc_files[Lower(dc_last.bookId)].doc.throws
    /\ dc_calls >= 2

\* getXmlBookData returned null for a missing file.
C19_WitnessMissing ==
    /\ dc_last.op = "getXmlBookData"
    /\ dc_last.value = <<>> /\ ~dc_last.threw
    /\ ~dc_files[Lower(dc_last.bookId)].exists

\* getXmlVerse returned null for a verse that its chapter does not hold, and
\* getXmlChapter for a chapter that its book does not hold.
C19_WitnessNoVerse ==
    /\ dc_last.op = "getXmlVerse"
    /\ dc_last.value = <<>>
    /\ LastBookExists
    /\ \E c \in Range(dc_bookCache[Lower(dc_last.bookId)].book.chapters) :
          c.chapter = dc_last.nums[1]
C19_WitnessNoChapter ==
    /\ dc_last.op = "getXmlChapter"
    /\ dc_last.value = <<>>
    /\ LastBookExists

RECURSIVE NotePairs(_, _, _)
\* The notes of the verses from v on, from note n of verse v on, as
\* <<term, explanation>> pairs: by verse, and within a verse by source order.
NotePairs(verses, v, n) ==
    IF v > Len(verses) THEN <<>>
    ELSE IF n > Len(verses[v].notes) THEN NotePairs(verses, v + 1, 1)
    ELSE <<<<verses[v].notes[n].term, verses[v].notes[n].explanation>>>>
             \o NotePairs(verses, v, n + 1)

\* The entries of a notes blob, which a blank line separates.
BlobEntries(blob) == IF blob = <<>> THEN <<>> ELSE SplitOn(blob, <<"\n", "\n">>)

\* The last call was getBookData and returned the projection of the cached
\* XML book.
LegacyReturned ==
    /\ dc_last.op = "getBookData" /\ ~dc_last.threw /\ dc_last.value # <<>>
    /\ Lower(dc_last.bookId) \in DOMAIN dc_bookCache

\* C23: the legacy projection preserves structure: the chapters of the
\* parsed book in order, each with its verses in order carrying the same
\* number, text and paragraphStart, and a notes blob with one entry
\* **"term"**: explanation per note of the chapter, by verse and source order.
C23_LegacyPreservesStructure ==
    LegacyReturned =>
        LET xmlBook == dc_bookCache[Lower(dc_last.bookId)].book
            legacy == dc_last.value[1]
        IN  /\ legacy.book = xmlBook.name
            /\ Len(legacy.chapters) = Len(xmlBook.chapters)
            /\ \A c \in 1..Len(xmlBook.chapters) :
                  LET from == xmlBook.chapters[c]
                      to == legacy.chapters[c]
                      pairs == NotePairs(from.verses, 1, 1)
                      entries == BlobEntries(to.notes)
                  IN  /\ to.chapter = from.chapter
                      /\ Len(to.verses) = Len(from.verses)
                      /\ \A v \in 1..Len(from.verses) :
                            to.verses[v] = [verse |-> from.verses[v].verse,
                                            text |-> from.verses[v].text,
                                            paragraphStart |-> from.verses[v].paragraphStart]
                      /\ Len(entries) = Len(pairs)
                      /\ \A k \in 1..Len(pairs) :
                            entries[k] = <<Star, Star, "\"">> \o pairs[k][1]
                                            \o <<"\"", Star, Star, ":", " ">> \o pairs[k][2]

\* The projection of a book of two chapters: the first has a verse without
\* notes before a verse with two, the second a verse with one.
C23_Witness ==
    /\ LegacyReturned
    /\ LET legacy == dc_last.value[1]
       IN  /\ Len(legacy.chapters) = 2
           /\ Len(legacy.chapters[1].verses) = 2
           /\ Len(BlobEntries(legacy.chapters[1].notes)) = 2
           /\ Len(BlobEntries(legacy.chapters[2].notes)) = 1
           /\ legacy.chapters[2].verses[1].paragraphStart
           /\ ~legacy.chapters[1].verses[1].paragraphStart
           /\ dc_bookCache[Lower(dc_last.bookId)].book.chapters[1].verses[1].notes = <<>>

\* The KJV text the cache holds for a verse, <<>> when it holds none.
CachedKjv(key, chapterNum, verseNum) ==
    IF key \in DOMAIN dc_kjvCache /\ chapterNum \in DOMAIN dc_kjvCache[key]
       /\ verseNum \in DOMAIN dc_kjvCache[key][chapterNum]
    THEN dc_kjvCache[key][chapterNum][verseNum] ELSE <<>>

\* The places <<bookId, chapter, verse>> of the loaded books whose text, or
\* whose KJV text, holds term: by book in the order of books, then by
\* chapter, then by verse.
MatchList(term) ==
    Concat([b \in 1..Len(books) |->
        IF books[b].id \notin DOMAIN dc_bookCache THEN <<>>
        ELSE LET chapters == dc_bookCache[books[b].id].book.chapters
             IN  Concat([c \in 1..Len(chapters) |->
                     Concat([v \in 1..Len(chapters[c].verses) |->
                         IF \/ Includes(Lower(chapters[c].verses[v].text), term)
                            \/ Includes(Lower(CachedKjv(books[b].id, chapters[c].chapter,
                                                        chapters[c].verses[v].verse)), term)
                         THEN <<<<books[b].id, chapters[c].chapter,
                                  chapters[c].verses[v].verse>>>>
                         ELSE <<>>])])])

\* The places of search results.
Places(results) ==
    [k \in 1..Len(results) |-> <<results[k].bookId, results[k].chapter, results[k].verse>>]

RECURSIVE PagesFrom(_, _, _)
\* The results of the page at offset and of the pages after it, each
\* requested at the offset the pages before it have reached, until hasMore
\* is false.
PagesFrom(query, limit, offset) ==
    LET page == searchVerses(ModuleState, dc_files, dc_kjvFiles, query, limit, offset).value[1]
    IN  page.results \o
            (IF page.hasMore /\ page.results # <<>>
             THEN PagesFrom(query, limit, offset + Len(page.results)) ELSE <<>>)

C26_WitnessLastPage ==
    /\ dc_last.op = "searchVerses"
    /\ dc_last.nums = <<1, 1>>
    /\ dc_last.value[1].total = 2
    /\ ~dc_last.value[1].hasMore
    /\ Len(dc_last.value[1].results) = 1

\* A query of two characters.
C26_WitnessShort ==
    /\ dc_last.op = "searchVerses"
    /\ Len(Trim(dc_last.bookId)) < 3
    /\ dc_last.value[1].total = 0

\* The file is there and holds a well-formed document with a <book>.
Loadable(file) == file.exists /\ ~file.doc.throws /\ file.doc.hasBook

\* C29: a failed load leaves the cache unchanged: a getXmlBookData call that
\* fails returns null, without an exception, and leaves the book cache as it
\* was; a call for an id that is not cached reads the file again, and
\* returns and caches the parsed book when the file is there and well-formed
\* with a <book>, null otherwise; the cache only holds parsed books.
C29_FailedLoadLeavesCache ==
    /\ [][dc_last'.op = "getXmlBookData" =>
            /\ ~dc_last'.threw
            /\ dc_last'.value = <<>> => dc_bookCache' = dc_bookCache
            /\ Lower(dc_last'.bookId) \notin DOMAIN dc_bookCache =>
                  /\ dc_reads'[Lower(dc_last'.bookId)] = dc_reads[Lower(dc_last'.bookId)] + 1
                  /\ IF Loadable(dc_files[Lower(dc_last'.bookId)])
                     THEN /\ dc_last'.value # <<>>
                          /\ dc_last'.value[1].book =
                                parseAITXml(dc_files[Lower(dc_last'.bookId)].doc)
                          /\ Lower(dc_last'.bookId) \in DOMAIN dc_bookCache'
                          /\ dc_bookCache'[Lower(dc_last'.bookId)] = dc_last'.value[1]
                     ELSE dc_last'.value = <<>>]_vars
    /\ [](\A key \in DOMAIN dc_bookCache : ~dc_bookCache[key].book.null)

\* A second read of the file of a book gave the book: the load had failed
\* once, and the call after the export succeeded.
C29_Witness ==
    /\ dc_last.op = "getXmlBookData"
    /\ dc_last.value # <<>>
    /\ dc_reads[Lower(dc_last.bookId)] = 2

\* A load fails on a file without <book> and the cache stays empty.
C29_WitnessFailed ==
    /\ dc_last.op = "getXmlBookData"
    /\ dc_last.value = <<>>
    /\ dc_files[Lower(dc_last.bookId)] = XmlFile(NoDocument)
    /\ dc_reads[Lower(dc_last.bookId)] = 2
    /\ dc_bookCache = <<>>

(***************************************************************************)
(* Verse rendering: VerseSpan, renderSegments and                          *)
(* renderTextWithGlossaryTerms (ChapterContent.tsx)                        *)
(***************************************************************************)

\* text.indexOf(lit, from): the first index at or after from where lit
\* stands, or -1.  Indices are 0-based, as in the code.
IndexOf(s, lit, from) ==
    LET at == {i \in from..(Len(s) - Len(lit)) : StartsAt(s, i + 1, lit)}
    IN  IF at = {} THEN -1 ELSE CHOOSE i \in at : \A j \in at : i <= j

\* getSpeakerClass: speaker.toLowerCase() on the speakers of the verses.
getSpeakerClass(speaker) ==
    CASE speaker \in {"Jesus", "jesus", "JESUS"} -> "text-red-700 dark:text-red-500"
      [] speaker \in {"God", "god", "GOD"} -> "text-purple-700 dark:text-purple-400"
      [] speaker \in {"angel", "Angel", "ANGEL"} -> "text-blue-700 dark:text-blue-400"
      [] OTHER -> ""

\* speakerClass of renderSegments for one segment.
SpeakerClassOf(segment) ==
    IF segment.type = "speaker" /\ segment.speaker \notin {Undefined, ""}
    THEN getSpeakerClass(segment.speaker) ELSE ""

\* The term of a span that is no glossary term.
NoTerm == GlossaryTerm("", <<>>, <<>>)

\* <span className={speakerClass}>{text}</span>
PlainSpan(text, speakerClass) ==
    [kind |-> "plain", text |-> text, term |-> NoTerm, speakerClass |-> speakerClass]

\* <span className={`glossary-term cursor-pointer ${speakerClass}`} ...>
\*   {match.matchedText}</span>
TermSpan(match, speakerClass) ==
    [kind |-> "term", text |-> match.matchedText, term |-> match.term,
     speakerClass |-> speakerClass]

\* The loop variables of renderTextWithGlossaryTerms.
Scan(currentIndex, result) == [currentIndex |-> currentIndex, result |-> result]

\* The text before the match, if the match stands past currentIndex.
BeforeSpan(text, currentIndex, at, speakerClass) ==
    IF currentIndex < at
    THEN <<PlainSpan(Slice(text, currentIndex, at), speakerClass)>> ELSE <<>>

\* The if (match) branch, at being text.indexOf(match.matchedText, currentIndex).
ScanMatchAt(text, scan, match, at, speakerClass) ==
    Scan(at + Len(match.matchedText),
         scan.result \o BeforeSpan(text, scan.currentIndex, at, speakerClass)
                     \o <<TermSpan(match, speakerClass)>>)

\* The if (match) branch.
ScanMatch(text, scan, match, speakerClass) ==
    ScanMatchAt(text, scan, match, IndexOf(text, match.matchedText, scan.currentIndex),
                speakerClass)

\* The else branch from endIndex on: the span pushed and the new index.
ScanTo(text, scan, endIndex, speakerClass) ==
    Scan(endIndex,
         Append(scan.result, PlainSpan(Slice(text, scan.currentIndex, endIndex), speakerClass)))

\* endIndex = nextSpace === -1 ? text.length : nextSpace + 1
EndIndex(text, nextSpace) == IF nextSpace = -1 THEN Len(text) ELSE nextSpace + 1

\* An else branch that pushes the word without the space after it.
ScanWordDropsSpace(text, scan, speakerClass) ==
    [ScanTo(text, scan,
            IF IndexOf(text, <<" ">>, scan.currentIndex + 1) = -1 THEN Len(text)
            ELSE IndexOf(text, <<" ">>, scan.currentIndex + 1), speakerClass)
        EXCEPT !.currentIndex = EndIndex(text, IndexOf(text, <<" ">>, scan.currentIndex + 1))]

\* The else branch: no match, on to the character after the next space.
ScanWord(text, scan, speakerClass) ==
    ScanTo(text, scan, EndIndex(text, IndexOf(text, <<" ">>, scan.currentIndex + 1)),
           speakerClass)

\* One iteration of the while loop, match being what
\* matchGlossaryTerm(text, currentIndex) returned.
ScanWith(text, scan, match, speakerClass) ==
    IF match # <<>> THEN ScanMatch(text, scan, match[1], speakerClass)
    ELSE ScanWord(text, scan, speakerClass)

\* The verses handed to VerseSpan: the verse's segments and its <w> tokens.
RenderedVerse(segments, greek) == [segments |-> segments, greek |-> greek]

\* The segment a parsed verse carries for content: a text segment, or a
\* quote of Jesus when the content is blank.
SegmentOf(content) ==
    IF Trim(content) = <<>> THEN SpeakerSegment(content, "Jesus") ELSE TextSegment(content)

\* Tokens of a verse: none, one word, and two words with the lemma of "Just".
GreekLists ==
    {<<>>,
     <<[text |-> <<"m", "o", "n", "o", "n">>, lemma |-> <<"m", "o", "n", "o", "n">>]>>,
     <<[text |-> <<"d", "i", "k", "a", "i", "o", "n">>, lemma |-> <<"d", "i", "k", "a", "i", "o", "s">>],
       [text |-> <<"o", "d", "o", "n">>, lemma |-> <<"o", "d", "o", "s">>]>>}

\* Verses of no segment, of one segment, and of narration before a quote.
SegmentLists ==
    {<<>>}
      \cup {<<SegmentOf(Concat(ts))>> : ts \in SeqUpTo(ProseTokens, MaxTokens) \ {<<>>}}
      \cup {<<TextSegment(t), SpeakerSegment(u, who)>> :
               t \in {<<"J", "u", "s", "t">>, <<"s", " ">>},
               u \in {<<>>, <<" ", "W", "a", "y">>},
               who \in {"God", "unknown"}}

RdInit ==
    /\ rd_pc = "segments"
    /\ rd_glossary \in Glossaries
    /\ rd_verse \in {RenderedVerse(segs, greek) : segs \in SegmentLists, greek \in GreekLists}
    /\ rd_seg = 0
    /\ rd_currentIndex = 0
    /\ rd_result = <<>>
    /\ rd_rendered = <<>>

\* renderSegments: if (!segments || segments.length === 0) return []
ReturnNoSegments ==
    /\ rd_pc = "segments"
    /\ Len(rd_verse.segments) = 0
    /\ rd_pc' = "done"
    /\ UNCHANGED <<rd_glossary, rd_verse, rd_seg, rd_currentIndex, rd_result,
                   rd_rendered, notRd>>

\* renderSegments calls renderTextWithGlossaryTerms for the next segment:
\* result = [], currentIndex = 0.
StartScan ==
    /\ rd_pc = "segments"
    /\ rd_seg < Len(rd_verse.segments)
    /\ rd_pc' = "scan"
    /\ rd_currentIndex' = 0
    /\ rd_result' = <<>>
    /\ UNCHANGED <<rd_glossary, rd_verse, rd_seg, rd_rendered, notRd>>

\* One iteration of while (currentIndex < text.length).  matchGlossaryTerm
\* is called without verseLemmas.
ScanIteration ==
    /\ rd_pc = "scan"
    /\ rd_currentIndex < Len(rd_verse.segments[rd_seg + 1].content)
    /\ LET scan == ScanWith(rd_verse.segments[rd_seg + 1].content,
                            Scan(rd_currentIndex, rd_result),
                            matchGlossaryTerm(termLookup[rd_glossary],
                                              rd_verse.segments[rd_seg + 1].content,
                                              rd_currentIndex, NoLemmas),
                            SpeakerClassOf(rd_verse.segments[rd_seg + 1]))
       IN  /\ rd_currentIndex' = scan.currentIndex
           /\ rd_result' = scan.result
    /\ UNCHANGED <<rd_pc, rd_glossary, rd_verse, rd_seg, rd_rendered, notRd>>

\* The loop ends: return result; renderSegments goes on to the next segment
\* or returns.
ReturnSpans ==
    /\ rd_pc = "scan"
    /\ rd_currentIndex >= Len(rd_verse.segments[rd_seg + 1].content)
    /\ rd_rendered' = Append(rd_rendered, rd_result)
    /\ rd_seg' = rd_seg + 1
    /\ rd_pc' = IF rd_seg + 1 = Len(rd_verse.segments) THEN "done" ELSE "segments"
    /\ UNCHANGED <<rd_glossary, rd_verse, rd_currentIndex, rd_result, notRd>>

RdNext == ReturnNoSegments \/ StartScan \/ ScanIteration \/ ReturnSpans

RenderInit == RdInit /\ MdIdle /\ PgIdle /\ TxIdle /\ BkIdle /\ GmIdle /\ DcIdle /\ SpIdle

SpecRender == RenderInit /\ [][RdNext]_vars

\* The text the loop is scanning, and the texts of spans, concatenated.
ScannedText == rd_verse.segments[rd_seg + 1].content
SpansText(spans) == Concat([k \in 1..Len(spans) |-> spans[k].text])

\* C24: scanning loop progress and coverage: every iteration strictly
\* increases the offset, which stays within the text (so the loop ends
\* after at most as many iterations as the text has characters) and is the
\* length of the text when the loop ends; the spans emitted so far spell the
\* text up to the offset, so that the spans returned spell the segment's
\* content.
C24_ScanCovers ==
    /\ [][(rd_pc = "scan" /\ rd_pc' = "scan") => rd_currentIndex' > rd_currentIndex]_vars
    /\ [][(rd_pc = "scan" /\ rd_pc' # "scan") => rd_currentIndex = Len(ScannedText)]_vars
    /\ [](rd_pc = "scan" =>
             /\ rd_currentIndex <= Len(ScannedText)
             /\ SpansText(rd_result) = SubSeq(ScannedText, 1, rd_currentIndex))
    /\ [](rd_pc = "done" =>
             /\ Len(rd_rendered) = Len(rd_verse.segments)
             /\ \A k \in 1..Len(rd_rendered) :
                   SpansText(rd_rendered[k]) = rd_verse.segments[k].content)

\* A rendered segment of a glossary term between two plain spans.
C24_Witness ==
    /\ rd_pc = "done"
    /\ Len(rd_rendered) = 1
    /\ Len(rd_rendered[1]) = 3
    /\ rd_rendered[1][1].kind = "plain"
    /\ rd_rendered[1][2].kind = "term"
    /\ rd_rendered[1][3].kind = "plain"

\* The lemmas of the verse's own source tokens.
VerseLemmas == {rd_verse.greek[k].lemma : k \in 1..Len(rd_verse.greek)}

\* C25: disambiguation is applied when a verse is rendered: every span
\* marked as a glossary term carries a term of which some lemma fragment is a
\* substring of a lemma of the verse's tokens, or contains one.
C25_RenderedTermsHaveLemma ==
    rd_pc = "done" =>
        \A k \in 1..Len(rd_rendered) : \A j \in 1..Len(rd_rendered[k]) :
            rd_rendered[k][j].kind = "term" =>
                \E frag \in LemmaFragments(rd_rendered[k][j].term.lemma) :
                    \E vl \in VerseLemmas : Includes(vl, frag) \/ Includes(frag, vl)

\* The places in text where a word begins: offset 0 and the offsets after a
\* whitespace character, at a character that is not whitespace.
WordStarts(text) ==
    {i \in 0..(Len(text) - 1) :
        /\ text[i + 1] \notin Whitespace
        /\ (i = 0 \/ text[i] \in Whitespace)}

\* A rendering of the glossary stands at offset i of text, before a boundary.
RenderingAt(glossary, text, i) ==
    \E t \in 1..Len(glossary) :
        \E a \in 1..Len(Alternatives(glossary[t].aitRendering)) :
            AltHit(SubSeq(text, i + 1, Len(text)), Alternatives(glossary[t].aitRendering)[a])

\* The offset in the text at which span j of spans begins.
SpanOffset(spans, j) == Len(SpansText(SubSeq(spans, 1, j - 1)))

\* C27: every word start is probed: in every rendered segment, a glossary
\* rendering that stands at a word start before a boundary is emitted as a
\* glossary-term span beginning at that offset.
C27_WordStartsProbed ==
    rd_pc = "done" =>
        \A k \in 1..Len(rd_rendered) :
            \A i \in WordStarts(rd_verse.segments[k].content) :
                RenderingAt(rd_glossary, rd_verse.segments[k].content, i) =>
                    \E j \in 1..Len(rd_rendered[k]) :
                        /\ rd_rendered[k][j].kind = "term"
                        /\ SpanOffset(rd_rendered[k], j) = i

(***************************************************************************)
(* The search page: SearchContent (app/search/page.tsx) and the search     *)
(* route (app/api/search/route.ts)                                         *)
(***************************************************************************)

\* Queries typed into the box or carried by the URL, and a query too short
\* to search for.
QueryWay == <<"w", "a", "y">>
QueryWord == <<"w", "o", "r", "d">>
QueryShort == <<"a", "b">>

\* The ordered match list of the server for each query, as verse ids.
MatchesOf ==
    [q \in {QueryWay, QueryWord} |->
        IF q = QueryWay THEN [k \in 1..12 |-> k] ELSE <<2, 5, 20>>]

\* const limit = parseInt(searchParams.get("limit") || "10", 10)
DefaultLimit == 10

\* GET /api/search?q=...&offset=...: the JSON of the response.
SearchRoute(query, offset) ==
    IF Len(Trim(query)) < 3
    THEN [results |-> <<>>, total |-> 0, hasMore |-> FALSE]
    ELSE [results |-> Slice(MatchesOf[query], offset, offset + DefaultLimit),
          total |-> Len(MatchesOf[query]),
          hasMore |-> offset + DefaultLimit < Len(MatchesOf[query])]

\* Most fetches issued in one run.
MaxRequests == 4

SpInit ==
    /\ sp_initialQuery \in {<<>>, QueryWay, QueryShort}
    /\ sp_query = sp_initialQuery
    /\ sp_results = <<>>
    /\ sp_total = 0
    /\ sp_hasMore = FALSE
    /\ sp_loading = FALSE
    /\ sp_loadingMore = FALSE
    /\ sp_searched = FALSE
    /\ sp_pending = {}
    /\ sp_nav = <<>>
    /\ sp_effect = TRUE
    /\ sp_issued = 0
    /\ sp_shown = <<>>

\* performSearch up to its await: the state is cleared for a short query,
\* else the loading flag is set and the fetch is issued.
performSearch(searchQuery, offset, append) ==
    IF Len(Trim(searchQuery)) < 3
    THEN /\ sp_results' = <<>>
         /\ sp_total' = 0
         /\ sp_hasMore' = FALSE
         /\ sp_searched' = FALSE
         /\ sp_shown' = <<>>
         /\ UNCHANGED <<sp_loading, sp_loadingMore, sp_pending, sp_issued>>
    ELSE /\ sp_issued < MaxRequests
         /\ sp_loading' = (IF append THEN sp_loading ELSE TRUE)
         /\ sp_loadingMore' = (IF append THEN TRUE ELSE sp_loadingMore)
         /\ sp_pending' = sp_pending \cup
                             {[id |-> sp_issued + 1, query |-> searchQuery,
                               offset |-> offset, append |-> append]}
         /\ sp_issued' = sp_issued + 1
         /\ UNCHANGED <<sp_results, sp_total, sp_hasMore, sp_searched, sp_shown>>

\* useEffect: if (initialQuery) performSearch(initialQuery)
RunEffect ==
    /\ sp_effect
    /\ sp_effect' = FALSE
    /\ IF sp_initialQuery # <<>> THEN performSearch(sp_initialQuery, 0, FALSE)
       ELSE UNCHANGED <<sp_results, sp_total, sp_hasMore, sp_searched, sp_shown,
                        sp_loading, sp_loadingMore, sp_pending, sp_issued>>
    /\ UNCHANGED <<sp_initialQuery, sp_query, sp_nav, notSp>>

\* onChange of the input: setQuery(e.target.value)
TypeQuery ==
    /\ \E q \in {QueryWay, QueryWord, QueryShort} \ {sp_query} : sp_query' = q
    /\ UNCHANGED <<sp_initialQuery, sp_results, sp_total, sp_hasMore, sp_loading,
                   sp_loadingMore, sp_searched, sp_pending, sp_nav, sp_effect,
                   sp_issued, sp_shown, notSp>>

\* handleSubmit; the submit button is disabled while loading or when the
\* query is short.
HandleSubmit ==
    /\ ~sp_loading
    /\ Len(Trim(sp_query)) >= 3
    /\ sp_nav' = <<sp_query>>
    /\ performSearch(sp_query, 0, FALSE)
    /\ UNCHANGED <<sp_initialQuery, sp_query, sp_effect, notSp>>

\* The navigation of router.push arrives: the component renders with the
\* new q, and the effect is due when initialQuery has changed.
Navigate ==
    /\ sp_nav # <<>>
    /\ sp_initialQuery' = sp_nav[1]
    /\ sp_nav' = <<>>
    /\ sp_effect' = (sp_effect \/ sp_nav[1] # sp_initialQuery)
    /\ UNCHANGED <<sp_query, sp_results, sp_total, sp_hasMore, sp_loading,
                   sp_loadingMore, sp_searched, sp_pending, sp_issued, sp_shown, notSp>>

\* handleLoadMore; the button is rendered when !loading, results.length > 0
\* and hasMore, and disabled while loadingMore.
HandleLoadMore ==
    /\ ~sp_loading /\ Len(sp_results) > 0 /\ sp_hasMore
    /\ ~sp_loadingMore
    /\ performSearch(sp_initialQuery, Len(sp_results), TRUE)
    /\ UNCHANGED <<sp_initialQuery, sp_query, sp_nav, sp_effect, notSp>>

\* A fetch resolves: performSearch from its await to the end of finally.
FetchResolves ==
    /\ \E req \in sp_pending :
          /\ sp_pending' = sp_pending \ {req}
          /\ sp_results' = (IF req.append
                            THEN sp_results \o SearchRoute(req.query, req.offset).results
                            ELSE SearchRoute(req.query, req.offset).results)
          /\ sp_total' = SearchRoute(req.query, req.offset).total
          /\ sp_hasMore' = SearchRoute(req.query, req.offset).hasMore
          /\ sp_shown' = (IF req.append THEN sp_shown ELSE req.query)
    /\ sp_searched' = TRUE
    /\ sp_loading' = FALSE
    /\ sp_loadingMore' = FALSE
    /\ UNCHANGED <<sp_initialQuery, sp_query, sp_nav, sp_effect, sp_issued, notSp>>

\* A fetch rejects: the catch block, then finally.
FetchRejects ==
    /\ \E req \in sp_pending :
          /\ sp_pending' = sp_pending \ {req}
          /\ IF req.append
             THEN UNCHANGED <<sp_results, sp_total, sp_hasMore, sp_shown>>
             ELSE /\ sp_results' = <<>>
                  /\ sp_total' = 0
                  /\ sp_hasMore' = FALSE
                  /\ sp_shown' = <<>>
    /\ sp_loading' = FALSE
    /\ sp_loadingMore' = FALSE
    /\ UNCHANGED <<sp_initialQuery, sp_query, sp_searched, sp_nav, sp_effect,
                   sp_issued, notSp>>

SpNext ==
    \/ RunEffect
    \/ TypeQuery
    \/ HandleSubmit
    \/ Navigate
    \/ HandleLoadMore
    \/ FetchResolves
    \/ FetchRejects

PageInit == SpInit /\ MdIdle /\ PgIdle /\ TxIdle /\ BkIdle /\ GmIdle /\ DcIdle /\ RdIdle

SpecPage == PageInit /\ [][SpNext]_vars

\* C30: search page results stay consistent under overlapping requests:
\* the displayed results are a prefix, without duplicates, of the match list
\* of the query whose response a non-append search applied last (empty when
\* there is none), and at most one "load more" request is in flight.
C30_ResultsConsistent ==
    /\ IF sp_shown = <<>> THEN sp_results = <<>>
       ELSE /\ Len(sp_results) <= Len(MatchesOf[sp_shown])
            /\ sp_results = SubSeq(MatchesOf[sp_shown], 1, Len(sp_results))
            /\ \A i, j \in 1..Len(sp_results) : sp_results[i] = sp_results[j] => i = j
    /\ Cardinality({req \in sp_pending : req.append}) <= 1

====
